---- MODULE Spec2Model ----
(***************************************************************************)
(* Model of the vectorize-iris Python client: one extraction call driven   *)
(* by extract_text / extract_text_from_file (client.py) or their async     *)
(* twins (async_client.py).  The call is cut at the points where it waits  *)
(* for the outside world: an HTTP response, the end of a sleep, the clock. *)
(***************************************************************************)
EXTENDS Integers, Sequences, FiniteSets, TLC

\* ------------------------------------------------------------------ bounds
\* Largest clock reading explored.
MaxTime == 2
\* Largest number of status requests explored in one call.
MaxPolls == 2
\* Longest metadata_schemas list explored.
MaxSchemas == 2

\* ------------------------------------------------------------ value spaces
\* Python's None.
None == "None"

\* Values an explicit api_token / org_id argument may take.
ArgTokens == {None, "", "custom-token"}
ArgOrgs == {None, "", "custom-org"}
\* Values of the two environment variables (None: variable not set).
EnvTokens == {None, "test-token"}
EnvOrgs == {None, "test-org-id"}

Drivers == {"sync", "async"}
Entries == {"bytes", "file"}

\* File system seen by extract_text_from_file: the paths tried, the ones
\* that exist, their content and their base name (Path(p).name).
Paths == {"docs/report.pdf", "/nonexistent/file.pdf"}
ExistingPaths == {"docs/report.pdf"}
FileBytes == [p \in ExistingPaths |-> <<37, 80, 68, 70>>]
PathName == [p \in Paths |-> IF p = "docs/report.pdf" THEN "report.pdf" ELSE "file.pdf"]
\* Byte strings handed to extract_text, and the file names given with them.
ByteInputs == {<<116, 101>>}
NameInputs == {"document.pdf"}

\* poll_interval and timeout arguments explored (seconds).
PollIntervals == {0, 1}
Timeouts == {0, 1}

\* HTTP status codes the service answers with, and str() of each.
Statuses == {200, 201, 204, 400, 403, 500}
StatusText == [s \in Statuses |->
                 CASE s = 200 -> "200" [] s = 201 -> "201" [] s = 204 -> "204"
                   [] s = 400 -> "400" [] s = 403 -> "403" [] s = 500 -> "500"]
\* The values poll_interval and timeout take when the caller leaves them
\* out (seconds).
DefaultPollInterval == 2
DefaultTimeout == 300
\* str() of the integers that get formatted: len(file_content) and timeout.
IntText == [n \in -1..4 \cup {DefaultTimeout} |->
              CASE n = -1 -> "-1" [] n = 0 -> "0" [] n = 1 -> "1" [] n = 2 -> "2"
                [] n = 3 -> "3" [] n = 4 -> "4" [] n = DefaultTimeout -> "300"]
\* Raw response bodies (response.text) of failing responses.
BodyTexts == {"Bad request", "Forbidden"}

\* JSON bodies of a 200 answer to POST /files.
UploadStartBodies ==
    { [fileId |-> "file-123", uploadUrl |-> "https://upload.example.com"],
      [fileId |-> "file-123"],
      [uploadUrl |-> "https://upload.example.com"] }
\* JSON bodies of a 200 answer to POST /extraction.
ExtractionStartBodies ==
    { [message |-> "started", extractionId |-> "extraction-123"],
      [message |-> "started"],
      [extractionId |-> "extraction-123"] }
\* JSON null, as the value of a key of a JSON object.
JsonNull == [null |-> TRUE]
\* JSON payloads found under "data" in a status answer.
DataBodies ==
    { [success |-> TRUE, text |-> "X"],
      [success |-> TRUE, text |-> "X", error |-> "Invalid file format"],
      [success |-> FALSE, error |-> "Invalid file format"],
      [success |-> FALSE, error |-> ""],
      [success |-> FALSE],
      [text |-> "X"] }
\* JSON bodies of a 200 answer to GET /extraction/{id}.
StatusBodies ==
    { [ready |-> r] : r \in BOOLEAN }
      \cup { [ready |-> TRUE, data |-> JsonNull] }
      \cup { [ready |-> TRUE, data |-> d] : d \in DataBodies }
      \cup { [ready |-> FALSE, data |-> d] :
                d \in { [success |-> TRUE, text |-> "X"],
                        [text |-> "X"] } }
      \cup { [data |-> [success |-> TRUE, text |-> "X"]] }

\* ---------------------------------------------------------------- helpers
\* Python truthiness of an Optional[str].
Truthy(v) == v # None /\ v # ""
\* Python's  a or b.
PyOr(a, b) == IF Truthy(a) THEN a ELSE b
\* An Optional object is a sequence of length at most one.
Absent == <<>>
Some(v) == <<v>>
\* A string built by an f-string is the sequence of its pieces.
Contains(msg, piece) == \E i \in 1..Len(msg) : msg[i] = piece

\* VectorizeIrisError(message), FileNotFoundError(message) and pydantic's
\* ValidationError raised by a response model.
VectorizeIrisError(msg) == [kind |-> "raised", exc |-> "VectorizeIrisError", msg |-> msg]
FileNotFoundError(msg) == [kind |-> "raised", exc |-> "FileNotFoundError", msg |-> msg]
ValidationError(model) == [kind |-> "raised", exc |-> "ValidationError", msg |-> <<model>>]
Returned(v) == [kind |-> "returned", value |-> v]
NoOutcome == [kind |-> "none"]

\* ----------------------------------------------------------- models.py
\* StartFileUploadRequest(...).model_dump(by_alias=True)
StartFileUploadRequest(name, content_type) ==
    [name |-> name, contentType |-> content_type]

\* StartFileUploadResponse(**json): both fields are required.
StartFileUploadResponseValid(json) ==
    "fileId" \in DOMAIN json /\ "uploadUrl" \in DOMAIN json
StartFileUploadResponse(json) ==
    [file_id |-> json.fileId, upload_url |-> json.uploadUrl]

\* StartExtractionResponse(**json): both fields are required.
StartExtractionResponseValid(json) ==
    "message" \in DOMAIN json /\ "extractionId" \in DOMAIN json
StartExtractionResponse(json) ==
    [message |-> json.message, extraction_id |-> json.extractionId]

\* ExtractionResultData(**json): success is required, the others default
\* to None.
ExtractionResultDataValid(json) == "success" \in DOMAIN json
ExtractionResultData(json) ==
    [success |-> json.success,
     text |-> IF "text" \in DOMAIN json THEN json.text ELSE None,
     error |-> IF "error" \in DOMAIN json THEN json.error ELSE None]

\* ExtractionResult(**json): ready is required; data is optional and, when
\* given and not null, validated as ExtractionResultData whatever ready is.
HasData(json) == "data" \in DOMAIN json /\ json.data # JsonNull
ExtractionResultValid(json) ==
    /\ "ready" \in DOMAIN json
    /\ HasData(json) => ExtractionResultDataValid(json.data)
ExtractionResult(json) ==
    [ready |-> json.ready,
     data |-> IF HasData(json) THEN Some(ExtractionResultData(json.data)) ELSE Absent]

\* A Python str that may hold JSON is the sequence of its tokens: the
\* punctuation json.dumps writes, a double-quoted string, a bare literal
\* (number, true, false, null), or text that is no JSON at all.
LBrace == [p |-> "{"]
RBrace == [p |-> "}"]
Comma == [p |-> ", "]
Colon == [p |-> ": "]
\* A value inside a Python dict: [s |-> str], [n |-> int], [b |-> bool] or
\* None (written JsonNull); a dict is the sequence of its items
\* [k |-> key, v |-> value] in insertion order.
JsonValueText(v) ==
    CASE "s" \in DOMAIN v -> [q |-> v.s]
      [] "n" \in DOMAIN v -> [lit |-> IntText[v.n]]
      [] "b" \in DOMAIN v -> [lit |-> IF v.b THEN "true" ELSE "false"]
      [] OTHER -> [lit |-> "null"]
\* json.dumps(d) of a dict d with str keys, default separators.
RECURSIVE DumpItems(_, _)
DumpItems(d, i) ==
    IF i > Len(d) THEN <<>>
    ELSE (IF i > 1 THEN <<Comma>> ELSE <<>>)
           \o <<[q |-> d[i].k], Colon, JsonValueText(d[i].v)>>
           \o DumpItems(d, i + 1)
json_dumps(d) == <<LBrace>> \o DumpItems(d, 1) \o <<RBrace>>

\* A validator that serializes whatever it is given: json.dumps of a str
\* is that str in double quotes.
convert_schema_to_stringAlways(v) ==
    IF "dict" \in DOMAIN v THEN json_dumps(v.dict) ELSE <<[quoted |-> v.str]>>
\* MetadataExtractionStrategySchema.convert_schema_to_string(v): v is
\* [dict |-> d] or [str |-> text].
convert_schema_to_string(v) ==
    IF "dict" \in DOMAIN v THEN json_dumps(v.dict) ELSE v.str
\* MetadataExtractionStrategySchema(id=id, schema=v)
MetadataExtractionStrategySchema(id, v) ==
    [id |-> id, schema_ |-> convert_schema_to_string(v)]
\* MetadataExtractionStrategySchema.model_dump(by_alias=True)
DumpSchema(o) == [id |-> o.id, schema |-> o.schema_]

\* ExtractionOptions.convert_metadata_schemas(v): v is Absent (None) or
\* Some(list); a list item is [dict |-> [id, schema]] or [object |-> o].
convert_metadata_schemas(v) ==
    IF v = Absent THEN Absent
    ELSE Some([i \in 1..Len(v[1]) |->
                 IF "dict" \in DOMAIN v[1][i]
                 THEN MetadataExtractionStrategySchema(v[1][i].dict.id,
                                                       v[1][i].dict.schema)
                 ELSE v[1][i].object])

\* The defaults with a slip: chunk_size takes the default that
\* StartExtractionRequest declares.
ExtractionOptionsChunked ==
    [type |-> "iris", chunk_size |-> Some(256), metadata_schemas |-> Absent,
     infer_metadata_schema |-> Some(TRUE), parsing_instructions |-> None]
\* ExtractionOptions(): the defaults of the options model.
ExtractionOptions ==
    [type |-> "iris", chunk_size |-> Absent, metadata_schemas |-> Absent,
     infer_metadata_schema |-> Some(TRUE), parsing_instructions |-> None]
\* ExtractionOptions(**kw): a keyword that is not given takes its default,
\* metadata_schemas goes through its validator.
OptionKeys == {"chunk_size", "metadata_schemas", "infer_metadata_schema",
               "parsing_instructions"}
ExtractionOptionsOf(kw) ==
    [type |-> ExtractionOptions.type,
     chunk_size |-> IF "chunk_size" \in DOMAIN kw THEN kw.chunk_size
                    ELSE ExtractionOptions.chunk_size,
     metadata_schemas |-> IF "metadata_schemas" \in DOMAIN kw
                          THEN convert_metadata_schemas(kw.metadata_schemas)
                          ELSE ExtractionOptions.metadata_schemas,
     infer_metadata_schema |-> IF "infer_metadata_schema" \in DOMAIN kw
                               THEN kw.infer_metadata_schema
                               ELSE ExtractionOptions.infer_metadata_schema,
     parsing_instructions |-> IF "parsing_instructions" \in DOMAIN kw
                              THEN kw.parsing_instructions
                              ELSE ExtractionOptions.parsing_instructions]
\* to_extraction_request with a slip: the metadata block is built only
\* when schemas are given.
to_extraction_requestSchemasOnly(opts, file_id) ==
    LET metadata ==
          IF opts.metadata_schemas # Absent
          THEN Some([schemas |-> opts.metadata_schemas,
                     infer_schema |-> opts.infer_metadata_schema])
          ELSE Absent
    IN [file_id |-> file_id, type |-> opts.type, chunk_size |-> opts.chunk_size,
        metadata |-> metadata, parsing_instructions |-> opts.parsing_instructions]
\* ExtractionOptions.to_extraction_request(file_id)
to_extraction_request(opts, file_id) ==
    LET metadata ==
          IF opts.metadata_schemas # Absent \/ opts.infer_metadata_schema # Absent
          THEN Some([schemas |-> opts.metadata_schemas,
                     infer_schema |-> opts.infer_metadata_schema])
          ELSE Absent
    IN [file_id |-> file_id, type |-> opts.type, chunk_size |-> opts.chunk_size,
        metadata |-> metadata, parsing_instructions |-> opts.parsing_instructions]
\* MetadataExtractionStrategy.model_dump(by_alias=True, exclude_none=True)
DumpMetadata(m) ==
    LET keys == (IF m.schemas # Absent THEN {"schemas"} ELSE {})
                  \cup (IF m.infer_schema # Absent THEN {"inferSchema"} ELSE {})
    IN [k \in keys |->
          IF k = "schemas"
          THEN [i \in 1..Len(m.schemas[1]) |-> DumpSchema(m.schemas[1][i])]
          ELSE m.infer_schema[1]]
\* StartExtractionRequest.model_dump(by_alias=True, exclude_none=True)
DumpExtractionRequest(req) ==
    LET keys == {"fileId"}
                  \cup (IF req.type # None THEN {"type"} ELSE {})
                  \cup (IF req.chunk_size # Absent THEN {"chunkSize"} ELSE {})
                  \cup (IF req.metadata # Absent THEN {"metadata"} ELSE {})
                  \cup (IF req.parsing_instructions # None
                        THEN {"parsingInstructions"} ELSE {})
    IN [k \in keys |->
          CASE k = "fileId" -> req.file_id
            [] k = "type" -> req.type
            [] k = "chunkSize" -> req.chunk_size[1]
            [] k = "metadata" -> DumpMetadata(req.metadata[1])
            [] k = "parsingInstructions" -> req.parsing_instructions]

\* ------------------------------------------------------------------ state
VARIABLES
    env,              \* os.environ: VECTORIZE_API_TOKEN and VECTORIZE_ORG_ID
    now,              \* the clock (time.time() / the event loop's time())
    pc,               \* where the call stands
    args,             \* the entry point called and its arguments
    api_token,        \* local: the resolved token
    org_id,           \* local: the resolved organization id
    poll_interval,    \* local
    timeout,          \* local
    file_content,     \* local: the bytes to upload
    file_name,        \* local
    upload_data,      \* local: StartFileUploadResponse, once parsed
    extraction_data,  \* local: StartExtractionResponse, once parsed
    start_time,       \* local: clock reading taken before the polling loop
    result,           \* local: the last ExtractionResult parsed
    trace,            \* what the call did to the outside: requests and sleeps
    response,         \* local: the response object received last
    answers,          \* what the service answered to the status requests
    outcome,          \* how the call ended: value returned or error raised
    peer,             \* a second call, made through async_client: its locals,
                      \* its session, its trace and its outcome
    consulted,        \* what the call asked of the file system, in order
    opt               \* an ExtractionOptions object on its way to the wire:
                      \* what the caller passed, the object, the request

vars == <<env, now, pc, args, api_token, org_id, poll_interval, timeout,
          file_content, file_name, upload_data, extraction_data, start_time,
          result, response, trace, answers, outcome, peer, consulted, opt>>

\* What is settled before the first request of a call: the locals of
\* _extract_from_bytes that are set by then, and what was asked of the file
\* system.
params == <<api_token, org_id, poll_interval, timeout, file_content, file_name,
            consulted>>

\* Path(file_path).exists() and open(file_path, 'rb').read()
Exists(path) == [op |-> "exists", path |-> path]
ReadAll(path) == [op |-> "read", path |-> path]

NoArgs == [entry |-> "none"]
NoResponse == [step |-> "none"]
\* A response object: status_code and, as far as the code reads them, text
\* (of a rejected request) or json() (of an accepted one).
Rejected(step, status, text) == [step |-> step, status |-> status, text |-> text]
Accepted(step, status, json) == [step |-> step, status |-> status, json |-> json]
Stored(step, status) == [step |-> step, status |-> status]

\* No ExtractionOptions object has been constructed.
NoOptions == [stage |-> "none"]

\* A call through async_client that has not been made yet.
IdleCall ==
    [pc |-> "idle", api_token |-> None, org_id |-> None, poll_interval |-> 0,
     timeout |-> 0, file_content |-> <<>>, file_name |-> None,
     upload_data |-> Absent, extraction_data |-> Absent, start_time |-> 0,
     result |-> Absent, session |-> "none", trace |-> <<>>,
     outcome |-> NoOutcome]

Init ==
    /\ env \in [VECTORIZE_API_TOKEN : EnvTokens, VECTORIZE_ORG_ID : EnvOrgs]
    /\ now = 0
    /\ pc = "idle"
    /\ args = NoArgs
    /\ api_token = None
    /\ org_id = None
    /\ poll_interval = 0
    /\ timeout = 0
    /\ file_content = <<>>
    /\ file_name = None
    /\ upload_data = Absent
    /\ extraction_data = Absent
    /\ start_time = 0
    /\ result = Absent
    /\ response = NoResponse
    /\ trace = <<>>
    /\ answers = <<>>
    /\ outcome = NoOutcome
    /\ peer = IdleCall
    /\ consulted = <<>>
    /\ opt = NoOptions

\* os.getenv(name)
getenv(name) == env[name]

\* ------------------------------------------------------ requests issued
base_url(org) == <<"https://api.vectorize.io/v1/org/", org>>
headers(token) ==
    [Authorization |-> <<"Bearer ", token>>, ContentType |-> "application/json"]
upload_headers(content) ==
    [ContentType |-> "application/octet-stream",
     ContentLength |-> IntText[Len(content)]]

UploadStartRequest(token, org, name) ==
    [ev |-> "request", step |-> "upload_start", method |-> "POST",
     url |-> base_url(org) \o <<"/files">>, headers |-> headers(token),
     json |-> StartFileUploadRequest(name, "application/octet-stream")]
ByteTransferRequest(url, content) ==
    [ev |-> "request", step |-> "byte_transfer", method |-> "PUT",
     url |-> <<url>>, headers |-> upload_headers(content), data |-> content]
ExtractionStartRequest(token, org, req) ==
    [ev |-> "request", step |-> "extraction_start", method |-> "POST",
     url |-> base_url(org) \o <<"/extraction">>, headers |-> headers(token),
     json |-> DumpExtractionRequest(req)]
StatusRequest(token, org, extraction_id) ==
    [ev |-> "request", step |-> "status", method |-> "GET",
     url |-> base_url(org) \o <<"/extraction/", extraction_id>>,
     headers |-> headers(token)]
Sleep(secs) == [ev |-> "sleep", secs |-> secs]

\* The requests of the trace, in the order issued.
Requests == SelectSeq(trace, LAMBDA e : e.ev = "request")
\* Number of status requests issued so far.
StatusRequests ==
    Cardinality({i \in 1..Len(trace) :
                   trace[i].ev = "request" /\ trace[i].step = "status"})

\* ----------------------------------------------------------------- steps
\* raise e
Raise(e) == pc' = "raised" /\ outcome' = e
\* return v
Return(v) == pc' = "returned" /\ outcome' = Returned(v)

\* _extract_from_bytes / _extract_from_bytes_async, from its entry to its
\* first wait: the POST to {base_url}/files is issued.
BeginExtract(content, name, token, org, interval, limit) ==
    /\ api_token' = token
    /\ org_id' = org
    /\ poll_interval' = interval
    /\ timeout' = limit
    /\ file_content' = content
    /\ file_name' = name
    /\ trace' = Append(trace, UploadStartRequest(token, org, name))
    /\ pc' = "upload_start"
    /\ UNCHANGED <<outcome, upload_data, extraction_data, start_time, result,
                   answers, response>>

\* ResolveToken with a slip: the environment is asked first.
ResolveTokenEnvFirst(tok) == PyOr(getenv("VECTORIZE_API_TOKEN"), tok)
\* CredentialsMissing with a slip: "and" in place of "or".
CredentialsMissingBoth(token, org) == ~Truthy(token) /\ ~Truthy(org)

\* ResolveToken with a slip: only an absent argument falls back to the
\* environment, an empty one is kept.
ResolveTokenNotNone(tok) ==
    IF tok # None THEN tok ELSE getenv("VECTORIZE_API_TOKEN")

\* The credentials as the entry points resolve them.
ResolveToken(tok) == PyOr(tok, getenv("VECTORIZE_API_TOKEN"))
ResolveOrg(org) == PyOr(org, getenv("VECTORIZE_ORG_ID"))
CredentialsMissing(token, org) == ~Truthy(token) \/ ~Truthy(org)
MissingCredentials ==
    VectorizeIrisError(<<"Missing credentials. Set VECTORIZE_API_TOKEN and VECTORIZE_ORG_ID environment variables or pass them as parameters.">>)

\* FailAtEntry with a slip: the upload-start request has gone out before the
\* error is raised.
FailAtEntryAfterRequest(e, token, org) ==
    /\ Raise(e)
    /\ api_token' = token
    /\ org_id' = org
    /\ trace' = Append(trace, UploadStartRequest(token, org, "document.pdf"))
    /\ UNCHANGED <<poll_interval, timeout, file_content, file_name,
                   upload_data, extraction_data, start_time, result, answers,
                   response>>

\* The call fails before _extract_from_bytes is entered.
FailAtEntry(e, token, org) ==
    /\ Raise(e)
    /\ api_token' = token
    /\ org_id' = org
    /\ UNCHANGED <<poll_interval, timeout, file_content, file_name, trace,
                   upload_data, extraction_data, start_time, result, answers, response>>

\* extract_text (driver "sync") and extract_text_async (driver "async").
extract_text(driver, file_bytes, name, tok, org, interval, limit) ==
    /\ pc = "idle"
    /\ args' = [entry |-> "bytes", driver |-> driver, file_bytes |-> file_bytes,
                file_name |-> name, api_token |-> tok, org_id |-> org,
                poll_interval |-> interval, timeout |-> limit]
    /\ LET token == ResolveToken(tok)
           org_ == ResolveOrg(org)
       IN IF CredentialsMissing(token, org_)
          THEN FailAtEntry(MissingCredentials, token, org_)
          ELSE BeginExtract(file_bytes, name, token, org_, interval, limit)
    /\ UNCHANGED <<env, now, consulted>>

\* extract_text_from_file with a slip: the file is looked for only after the
\* upload slot has been asked for.
extract_text_from_fileLateCheck(driver, file_path, tok, org, interval, limit) ==
    /\ pc = "idle"
    /\ args' = [entry |-> "file", driver |-> driver, file_path |-> file_path,
                api_token |-> tok, org_id |-> org,
                poll_interval |-> interval, timeout |-> limit]
    /\ LET token == ResolveToken(tok)
           org_ == ResolveOrg(org)
       IN IF CredentialsMissing(token, org_)
          THEN /\ FailAtEntry(MissingCredentials, token, org_)
               /\ consulted' = <<>>
          ELSE IF file_path \notin ExistingPaths
          THEN /\ FailAtEntryAfterRequest(
                        FileNotFoundError(<<"File not found: ", file_path>>),
                        token, org_)
               /\ consulted' = <<Exists(file_path)>>
          ELSE /\ BeginExtract(FileBytes[file_path], PathName[file_path],
                                 token, org_, interval, limit)
               /\ consulted' = <<Exists(file_path), ReadAll(file_path)>>
    /\ UNCHANGED <<env, now>>

\* extract_text_from_file with a slip: the file is uploaded under the path
\* it was given, not under its base name.
extract_text_from_fileFullPath(driver, file_path, tok, org, interval, limit) ==
    /\ pc = "idle"
    /\ args' = [entry |-> "file", driver |-> driver, file_path |-> file_path,
                api_token |-> tok, org_id |-> org,
                poll_interval |-> interval, timeout |-> limit]
    /\ LET token == ResolveToken(tok)
           org_ == ResolveOrg(org)
       IN IF CredentialsMissing(token, org_)
          THEN /\ FailAtEntry(MissingCredentials, token, org_)
               /\ consulted' = <<>>
          ELSE IF file_path \notin ExistingPaths
          THEN /\ FailAtEntry(FileNotFoundError(<<"File not found: ", file_path>>),
                                token, org_)
               /\ consulted' = <<Exists(file_path)>>
          ELSE /\ BeginExtract(FileBytes[file_path], file_path,
                                 token, org_, interval, limit)
               /\ consulted' = <<Exists(file_path), ReadAll(file_path)>>
    /\ UNCHANGED <<env, now>>

\* extract_text_from_file with a slip: the file is looked for before the
\* credentials are.
extract_text_from_fileExistsFirst(driver, file_path, tok, org, interval, limit) ==
    /\ pc = "idle"
    /\ args' = [entry |-> "file", driver |-> driver, file_path |-> file_path,
                api_token |-> tok, org_id |-> org,
                poll_interval |-> interval, timeout |-> limit]
    /\ LET token == ResolveToken(tok)
           org_ == ResolveOrg(org)
       IN IF file_path \notin ExistingPaths
          THEN /\ FailAtEntry(FileNotFoundError(<<"File not found: ", file_path>>),
                                token, org_)
               /\ consulted' = <<Exists(file_path)>>
          ELSE IF CredentialsMissing(token, org_)
          THEN /\ FailAtEntry(MissingCredentials, token, org_)
               /\ consulted' = <<Exists(file_path)>>
          ELSE /\ BeginExtract(FileBytes[file_path], PathName[file_path],
                                 token, org_, interval, limit)
               /\ consulted' = <<Exists(file_path), ReadAll(file_path)>>
    /\ UNCHANGED <<env, now>>

\* extract_text_from_file and extract_text_from_file_async.
extract_text_from_file(driver, file_path, tok, org, interval, limit) ==
    /\ pc = "idle"
    /\ args' = [entry |-> "file", driver |-> driver, file_path |-> file_path,
                api_token |-> tok, org_id |-> org,
                poll_interval |-> interval, timeout |-> limit]
    /\ LET token == ResolveToken(tok)
           org_ == ResolveOrg(org)
       IN IF CredentialsMissing(token, org_)
          THEN /\ FailAtEntry(MissingCredentials, token, org_)
               /\ consulted' = <<>>
          ELSE IF file_path \notin ExistingPaths
          THEN /\ FailAtEntry(FileNotFoundError(<<"File not found: ", file_path>>),
                                token, org_)
               /\ consulted' = <<Exists(file_path)>>
          ELSE /\ BeginExtract(FileBytes[file_path], PathName[file_path],
                                 token, org_, interval, limit)
               /\ consulted' = <<Exists(file_path), ReadAll(file_path)>>
    /\ UNCHANGED <<env, now>>

\* UploadStartResponse with a slip: the status code is not looked at.
UploadStartResponseUnchecked(status, text, json) ==
    /\ pc = "upload_start"
    /\ IF ~StartFileUploadResponseValid(json)
       THEN /\ Raise(ValidationError("StartFileUploadResponse"))
            /\ UNCHANGED <<upload_data, trace>>
       ELSE /\ upload_data' = Some(StartFileUploadResponse(json))
            /\ trace' = Append(trace,
                  ByteTransferRequest(StartFileUploadResponse(json).upload_url,
                                      file_content))
            /\ pc' = "byte_transfer"
            /\ UNCHANGED outcome
    /\ response' = IF status # 200 THEN Rejected("upload_start", status, text)
                   ELSE Accepted("upload_start", status, json)
    /\ UNCHANGED <<env, now, args, params, extraction_data, start_time, result,
                   answers>>

\* UploadStartResponse with a slip: the PUT is sent with the headers of the
\* JSON requests.
UploadStartResponseAuthPut(status, text, json) ==
    /\ pc = "upload_start"
    /\ IF status # 200
       THEN /\ Raise(VectorizeIrisError(
                  <<"Failed to start upload: ", StatusText[status], " - ", text>>))
            /\ UNCHANGED <<upload_data, trace>>
       ELSE IF ~StartFileUploadResponseValid(json)
       THEN /\ Raise(ValidationError("StartFileUploadResponse"))
            /\ UNCHANGED <<upload_data, trace>>
       ELSE /\ upload_data' = Some(StartFileUploadResponse(json))
            /\ trace' = Append(trace,
                  [ByteTransferRequest(StartFileUploadResponse(json).upload_url,
                                       file_content)
                      EXCEPT !.headers = headers(api_token)])
            /\ pc' = "byte_transfer"
            /\ UNCHANGED outcome
    /\ response' = IF status # 200 THEN Rejected("upload_start", status, text)
                   ELSE Accepted("upload_start", status, json)
    /\ UNCHANGED <<env, now, args, params, extraction_data, start_time, result,
                   answers>>

\* The answer to POST /files arrives.
UploadStartResponse(status, text, json) ==
    /\ pc = "upload_start"
    /\ IF status # 200
       THEN /\ Raise(VectorizeIrisError(
                  <<"Failed to start upload: ", StatusText[status], " - ", text>>))
            /\ UNCHANGED <<upload_data, trace>>
       ELSE IF ~StartFileUploadResponseValid(json)
       THEN /\ Raise(ValidationError("StartFileUploadResponse"))
            /\ UNCHANGED <<upload_data, trace>>
       ELSE /\ upload_data' = Some(StartFileUploadResponse(json))
            /\ trace' = Append(trace,
                  ByteTransferRequest(StartFileUploadResponse(json).upload_url,
                                      file_content))
            /\ pc' = "byte_transfer"
            /\ UNCHANGED outcome
    /\ response' = IF status # 200 THEN Rejected("upload_start", status, text)
                   ELSE Accepted("upload_start", status, json)
    /\ UNCHANGED <<env, now, args, params, extraction_data, start_time, result,
                   answers>>

\* PutResponse with a slip: only 200 counts as a stored file.
PutResponseOnly200(status, text) ==
    /\ pc = "byte_transfer"
    /\ IF status # 200
       THEN /\ Raise(VectorizeIrisError(
                  <<"Failed to upload file: ", StatusText[status], " - ", text>>))
            /\ UNCHANGED trace
       ELSE /\ trace' = Append(trace,
                  ExtractionStartRequest(api_token, org_id,
                      to_extraction_request(ExtractionOptions,
                                            upload_data[1].file_id)))
            /\ pc' = "extraction_start"
            /\ UNCHANGED outcome
    /\ response' = IF status \notin {200, 201, 204}
                   THEN Rejected("byte_transfer", status, text)
                   ELSE Stored("byte_transfer", status)
    /\ UNCHANGED <<env, now, args, params, upload_data, extraction_data,
                   start_time, result, answers>>

\* PutResponse with a slip: a rejected transfer asks for a new upload slot
\* instead of raising.
PutResponseRetry(status, text) ==
    /\ pc = "byte_transfer"
    /\ IF status \notin {200, 201, 204}
       THEN /\ Len(trace) < 4
            /\ trace' = Append(trace,
                  UploadStartRequest(api_token, org_id, file_name))
            /\ pc' = "upload_start"
            /\ UNCHANGED outcome
       ELSE /\ trace' = Append(trace,
                  ExtractionStartRequest(api_token, org_id,
                      to_extraction_request(ExtractionOptions,
                                            upload_data[1].file_id)))
            /\ pc' = "extraction_start"
            /\ UNCHANGED outcome
    /\ response' = IF status \notin {200, 201, 204}
                   THEN Rejected("byte_transfer", status, text)
                   ELSE Stored("byte_transfer", status)
    /\ UNCHANGED <<env, now, args, params, upload_data, extraction_data,
                   start_time, result, answers>>

\* The answer to the PUT on the presigned URL arrives.
PutResponse(status, text) ==
    /\ pc = "byte_transfer"
    /\ IF status \notin {200, 201, 204}
       THEN /\ Raise(VectorizeIrisError(
                  <<"Failed to upload file: ", StatusText[status], " - ", text>>))
            /\ UNCHANGED trace
       ELSE /\ trace' = Append(trace,
                  ExtractionStartRequest(api_token, org_id,
                      to_extraction_request(ExtractionOptions,
                                            upload_data[1].file_id)))
            /\ pc' = "extraction_start"
            /\ UNCHANGED outcome
    /\ response' = IF status \notin {200, 201, 204}
                   THEN Rejected("byte_transfer", status, text)
                   ELSE Stored("byte_transfer", status)
    /\ UNCHANGED <<env, now, args, params, upload_data, extraction_data,
                   start_time, result, answers>>

\* ExtractionStartResponse with a slip: the error names the status code but
\* leaves out the response body.
ExtractionStartResponseNoBody(status, text, json) ==
    /\ pc = "extraction_start"
    /\ IF status # 200
       THEN /\ Raise(VectorizeIrisError(
                  <<"Failed to start extraction: ", StatusText[status]>>))
            /\ UNCHANGED <<extraction_data, start_time>>
       ELSE IF ~StartExtractionResponseValid(json)
       THEN /\ Raise(ValidationError("StartExtractionResponse"))
            /\ UNCHANGED <<extraction_data, start_time>>
       ELSE /\ extraction_data' = Some(StartExtractionResponse(json))
            /\ start_time' = now
            /\ pc' = "poll_check"
            /\ UNCHANGED outcome
    /\ response' = IF status # 200 THEN Rejected("extraction_start", status, text)
                   ELSE Accepted("extraction_start", status, json)
    /\ UNCHANGED <<env, now, args, params, upload_data, result, trace, answers>>

\* ExtractionStartResponse with a slip: the timeout runs from the entry of
\* the call, no clock reading is taken after the answer.
ExtractionStartResponseEntryClock(status, text, json) ==
    /\ pc = "extraction_start"
    /\ IF status # 200
       THEN /\ Raise(VectorizeIrisError(
                  <<"Failed to start extraction: ", StatusText[status], " - ", text>>))
            /\ UNCHANGED <<extraction_data, start_time>>
       ELSE IF ~StartExtractionResponseValid(json)
       THEN /\ Raise(ValidationError("StartExtractionResponse"))
            /\ UNCHANGED <<extraction_data, start_time>>
       ELSE /\ extraction_data' = Some(StartExtractionResponse(json))
            /\ start_time' = 0
            /\ pc' = "poll_check"
            /\ UNCHANGED outcome
    /\ response' = IF status # 200 THEN Rejected("extraction_start", status, text)
                   ELSE Accepted("extraction_start", status, json)
    /\ UNCHANGED <<env, now, args, params, upload_data, result, trace, answers>>

\* The answer to POST /extraction arrives; on success start_time is read.
ExtractionStartResponse(status, text, json) ==
    /\ pc = "extraction_start"
    /\ IF status # 200
       THEN /\ Raise(VectorizeIrisError(
                  <<"Failed to start extraction: ", StatusText[status], " - ", text>>))
            /\ UNCHANGED <<extraction_data, start_time>>
       ELSE IF ~StartExtractionResponseValid(json)
       THEN /\ Raise(ValidationError("StartExtractionResponse"))
            /\ UNCHANGED <<extraction_data, start_time>>
       ELSE /\ extraction_data' = Some(StartExtractionResponse(json))
            /\ start_time' = now
            /\ pc' = "poll_check"
            /\ UNCHANGED outcome
    /\ response' = IF status # 200 THEN Rejected("extraction_start", status, text)
                   ELSE Accepted("extraction_start", status, json)
    /\ UNCHANGED <<env, now, args, params, upload_data, result, trace, answers>>

\* ExtractionTimeout with a slip: the message reports the time that has
\* elapsed instead of the configured timeout.
ExtractionTimeoutElapsed(limit) ==
    VectorizeIrisError(<<"Extraction timed out after ",
                         IntText[now - start_time], " seconds">>)

\* TimedOut with a slip: the operands of the subtraction are swapped.
TimedOutSwapped(clock, start, limit) == start - clock > limit

\* TimedOut with a slip: the timeout itself already counts as too long.
TimedOutNonStrict(clock, start, limit) == clock - start >= limit

\* The condition of the timeout check at the top of the loop.
TimedOut(clock, start, limit) == clock - start > limit
ExtractionTimeout(limit) ==
    VectorizeIrisError(<<"Extraction timed out after ", IntText[limit], " seconds">>)

\* PollCheck with a slip: the timeout is checked only after a first status
\* request has been made.
PollCheckSkipFirst ==
    /\ pc = "poll_check"
    /\ IF StatusRequests > 0 /\ TimedOut(now, start_time, timeout)
       THEN /\ Raise(ExtractionTimeout(timeout))
            /\ UNCHANGED trace
       ELSE /\ StatusRequests < MaxPolls
            /\ trace' = Append(trace,
                  StatusRequest(api_token, org_id, extraction_data[1].extraction_id))
            /\ pc' = "status"
            /\ UNCHANGED outcome
    /\ UNCHANGED <<env, now, args, params, upload_data, extraction_data,
                   start_time, result, answers, response>>

\* PollCheck with a slip: the loop gives up after a fixed number of status
\* requests, whatever the clock says.
PollCheckMaxAttempts ==
    /\ pc = "poll_check"
    /\ IF TimedOut(now, start_time, timeout) \/ StatusRequests >= 1
       THEN /\ Raise(ExtractionTimeout(timeout))
            /\ UNCHANGED trace
       ELSE /\ StatusRequests < MaxPolls
            /\ trace' = Append(trace,
                  StatusRequest(api_token, org_id, extraction_data[1].extraction_id))
            /\ pc' = "status"
            /\ UNCHANGED outcome
    /\ UNCHANGED <<env, now, args, params, upload_data, extraction_data,
                   start_time, result, answers, response>>

\* PollCheck with a slip: on timeout the remote job is cancelled before the
\* error is raised.
PollCheckCancel ==
    /\ pc = "poll_check"
    /\ IF TimedOut(now, start_time, timeout)
       THEN /\ Raise(ExtractionTimeout(timeout))
            /\ trace' = Append(trace,
                  [ev |-> "request", step |-> "cancel", method |-> "DELETE",
                   url |-> base_url(org_id) \o
                           <<"/extraction/", extraction_data[1].extraction_id>>,
                   headers |-> headers(api_token)])
       ELSE /\ StatusRequests < MaxPolls
            /\ trace' = Append(trace,
                  StatusRequest(api_token, org_id, extraction_data[1].extraction_id))
            /\ pc' = "status"
            /\ UNCHANGED outcome
    /\ UNCHANGED <<env, now, args, params, upload_data, extraction_data,
                   start_time, result, answers, response>>

\* PollCheck with a slip: the status is asked for under the file id instead
\* of the extraction id.
PollCheckByFileId ==
    /\ pc = "poll_check"
    /\ IF TimedOut(now, start_time, timeout)
       THEN /\ Raise(ExtractionTimeout(timeout))
            /\ UNCHANGED trace
       ELSE /\ StatusRequests < MaxPolls
            /\ trace' = Append(trace,
                  StatusRequest(api_token, org_id, upload_data[1].file_id))
            /\ pc' = "status"
            /\ UNCHANGED outcome
    /\ UNCHANGED <<env, now, args, params, upload_data, extraction_data,
                   start_time, result, answers, response>>

\* PollCheck with a slip: the credentials of the status request are looked
\* up again, in the arguments and the environment as it is now.
PollCheckReResolve ==
    /\ pc = "poll_check"
    /\ IF TimedOut(now, start_time, timeout)
       THEN /\ Raise(ExtractionTimeout(timeout))
            /\ UNCHANGED trace
       ELSE /\ StatusRequests < MaxPolls
            /\ trace' = Append(trace,
                  StatusRequest(ResolveToken(args.api_token), ResolveOrg(args.org_id),
                                extraction_data[1].extraction_id))
            /\ pc' = "status"
            /\ UNCHANGED outcome
    /\ UNCHANGED <<env, now, args, params, upload_data, extraction_data,
                   start_time, result, answers, response>>

\* Top of the polling loop: the timeout check, then the GET.
PollCheck ==
    /\ pc = "poll_check"
    /\ IF TimedOut(now, start_time, timeout)
       THEN /\ Raise(ExtractionTimeout(timeout))
            /\ UNCHANGED trace
       ELSE /\ StatusRequests < MaxPolls
            /\ trace' = Append(trace,
                  StatusRequest(api_token, org_id, extraction_data[1].extraction_id))
            /\ pc' = "status"
            /\ UNCHANGED outcome
    /\ UNCHANGED <<env, now, args, params, upload_data, extraction_data,
                   start_time, result, answers, response>>

\* ResolveResult with a slip: a status that is not ready goes straight back
\* to the top of the loop, without sleeping.
ResolveResultNoSleep(res) ==
    IF res.ready
    THEN /\ IF res.data = Absent
            THEN Raise(VectorizeIrisError(
                     <<"Extraction completed but no data was returned">>))
            ELSE IF ~res.data[1].success
            THEN Raise(VectorizeIrisError(
                     <<"Extraction failed: ",
                       PyOr(res.data[1].error, "Unknown error")>>))
            ELSE Return(res.data[1])
         /\ UNCHANGED trace
    ELSE /\ pc' = "poll_check"
         /\ UNCHANGED <<trace, outcome>>

\* ResolveResult with a slip: the payload of a ready status is returned
\* without looking at its success flag.
ResolveResultPartial(res) ==
    IF res.ready
    THEN /\ IF res.data = Absent
            THEN Raise(VectorizeIrisError(
                     <<"Extraction completed but no data was returned">>))
            ELSE Return(res.data[1])
         /\ UNCHANGED trace
    ELSE /\ trace' = Append(trace, Sleep(poll_interval))
         /\ pc' = "sleep"
         /\ UNCHANGED outcome

\* ResolveResult with a slip: the error text of a failed payload is used as
\* it is, without the "Unknown error" fallback.
ResolveResultNoFallback(res) ==
    IF res.ready
    THEN /\ IF res.data = Absent
            THEN Raise(VectorizeIrisError(
                     <<"Extraction completed but no data was returned">>))
            ELSE IF ~res.data[1].success
            THEN Raise(VectorizeIrisError(
                     <<"Extraction failed: ", res.data[1].error>>))
            ELSE Return(res.data[1])
         /\ UNCHANGED trace
    ELSE /\ trace' = Append(trace, Sleep(poll_interval))
         /\ pc' = "sleep"
         /\ UNCHANGED outcome

\* ResolveResult with a slip: a ready status without payload is reported like
\* a failed payload without error text.
ResolveResultCollapsed(res) ==
    IF res.ready
    THEN /\ IF res.data = Absent
            THEN Raise(VectorizeIrisError(
                     <<"Extraction failed: ", "Unknown error">>))
            ELSE IF ~res.data[1].success
            THEN Raise(VectorizeIrisError(
                     <<"Extraction failed: ",
                       PyOr(res.data[1].error, "Unknown error")>>))
            ELSE Return(res.data[1])
         /\ UNCHANGED trace
    ELSE /\ trace' = Append(trace, Sleep(poll_interval))
         /\ pc' = "sleep"
         /\ UNCHANGED outcome

\* What the loop does with a parsed ExtractionResult.
ResolveResult(res) ==
    IF res.ready
    THEN /\ IF res.data = Absent
            THEN Raise(VectorizeIrisError(
                     <<"Extraction completed but no data was returned">>))
            ELSE IF ~res.data[1].success
            THEN Raise(VectorizeIrisError(
                     <<"Extraction failed: ",
                       PyOr(res.data[1].error, "Unknown error")>>))
            ELSE Return(res.data[1])
         /\ UNCHANGED trace
    ELSE /\ trace' = Append(trace, Sleep(poll_interval))
         /\ pc' = "sleep"
         /\ UNCHANGED outcome

\* StatusResponse with a slip: a status request that was refused is made
\* again after the poll interval.
StatusResponseRetry(status, text, json) ==
    /\ pc = "status"
    /\ response' = IF status # 200 THEN Rejected("status", status, text)
                   ELSE Accepted("status", status, json)
    /\ IF status # 200
       THEN /\ answers' = Append(answers, [status |-> status, text |-> text])
            /\ trace' = Append(trace, Sleep(poll_interval))
            /\ pc' = "sleep"
            /\ UNCHANGED <<result, outcome>>
       ELSE /\ answers' = Append(answers, [status |-> status, json |-> json])
            /\ IF ~ExtractionResultValid(json)
               THEN /\ Raise(ValidationError("ExtractionResult"))
                    /\ UNCHANGED <<result, trace>>
               ELSE /\ result' = Some(ExtractionResult(json))
                    /\ ResolveResult(ExtractionResult(json))
    /\ UNCHANGED <<env, now, args, params, upload_data, extraction_data,
                   start_time>>

\* StatusResponse with a slip: the deadline is looked at again when the
\* answer is in, before the answer is acted on.
StatusResponseDeadline(status, text, json) ==
    /\ pc = "status"
    /\ response' = IF status # 200 THEN Rejected("status", status, text)
                   ELSE Accepted("status", status, json)
    /\ IF status # 200
       THEN /\ answers' = Append(answers, [status |-> status, text |-> text])
            /\ Raise(VectorizeIrisError(
                  <<"Failed to check status: ", StatusText[status], " - ", text>>))
            /\ UNCHANGED <<result, trace>>
       ELSE /\ answers' = Append(answers, [status |-> status, json |-> json])
            /\ IF ~ExtractionResultValid(json)
               THEN /\ Raise(ValidationError("ExtractionResult"))
                    /\ UNCHANGED <<result, trace>>
               ELSE IF TimedOut(now, start_time, timeout)
               THEN /\ Raise(ExtractionTimeout(timeout))
                    /\ UNCHANGED <<result, trace>>
               ELSE /\ result' = Some(ExtractionResult(json))
                    /\ ResolveResult(ExtractionResult(json))
    /\ UNCHANGED <<env, now, args, params, upload_data, extraction_data,
                   start_time>>

\* StatusResponse with a slip: a body without a ready field is read as
\* "not ready yet".
StatusResponseLenient(status, text, json) ==
    /\ pc = "status"
    /\ response' = IF status # 200 THEN Rejected("status", status, text)
                   ELSE Accepted("status", status, json)
    /\ IF status # 200
       THEN /\ answers' = Append(answers, [status |-> status, text |-> text])
            /\ Raise(VectorizeIrisError(
                  <<"Failed to check status: ", StatusText[status], " - ", text>>))
            /\ UNCHANGED <<result, trace>>
       ELSE /\ answers' = Append(answers, [status |-> status, json |-> json])
            /\ IF "ready" \notin DOMAIN json
               THEN /\ trace' = Append(trace, Sleep(poll_interval))
                    /\ pc' = "sleep"
                    /\ UNCHANGED <<result, outcome>>
               ELSE IF ~ExtractionResultValid(json)
               THEN /\ Raise(ValidationError("ExtractionResult"))
                    /\ UNCHANGED <<result, trace>>
               ELSE /\ result' = Some(ExtractionResult(json))
                    /\ ResolveResult(ExtractionResult(json))
    /\ UNCHANGED <<env, now, args, params, upload_data, extraction_data,
                   start_time>>

\* The answer to GET /extraction/{id} arrives.
StatusResponse(status, text, json) ==
    /\ pc = "status"
    /\ response' = IF status # 200 THEN Rejected("status", status, text)
                   ELSE Accepted("status", status, json)
    /\ IF status # 200
       THEN /\ answers' = Append(answers, [status |-> status, text |-> text])
            /\ Raise(VectorizeIrisError(
                  <<"Failed to check status: ", StatusText[status], " - ", text>>))
            /\ UNCHANGED <<result, trace>>
       ELSE /\ answers' = Append(answers, [status |-> status, json |-> json])
            /\ IF ~ExtractionResultValid(json)
               THEN /\ Raise(ValidationError("ExtractionResult"))
                    /\ UNCHANGED <<result, trace>>
               ELSE /\ result' = Some(ExtractionResult(json))
                    /\ ResolveResult(ExtractionResult(json))
    /\ UNCHANGED <<env, now, args, params, upload_data, extraction_data,
                   start_time>>

\* time.sleep(poll_interval) / asyncio.sleep(poll_interval) is over.
Wake ==
    /\ pc = "sleep"
    /\ now + poll_interval <= MaxTime
    /\ now' = now + poll_interval
    /\ pc' = "poll_check"
    /\ UNCHANGED <<env, args, params, upload_data, extraction_data, start_time,
                   result, trace, answers, response, outcome>>

\* Time passes while the call waits or runs.
Tick ==
    /\ pc \in {"upload_start", "byte_transfer", "extraction_start",
               "poll_check", "status", "sleep"}
    /\ now < MaxTime
    /\ now' = now + 1
    /\ UNCHANGED <<env, pc, args, params, upload_data, extraction_data,
                   start_time, result, trace, answers, response, outcome>>

\* Something else in the process changes the environment variables, before
\* the call or while it is in progress.
SetEnv(e) ==
    /\ pc \notin {"returned", "raised"}
    /\ e # env
    /\ env' = e
    /\ UNCHANGED <<now, pc, args, params, upload_data, extraction_data,
                   start_time, result, trace, answers, response, outcome>>

Next ==
    \/ /\ \E d \in Drivers, b \in ByteInputs, n \in NameInputs, tok \in ArgTokens,
             org \in ArgOrgs, i \in PollIntervals, t \in Timeouts :
             extract_text(d, b, n, tok, org, i, t)
       /\ UNCHANGED <<peer, opt>>
    \/ /\ \E d \in Drivers, p \in Paths, tok \in ArgTokens, org \in ArgOrgs,
             i \in PollIntervals, t \in Timeouts :
             extract_text_from_file(d, p, tok, org, i, t)
       /\ UNCHANGED <<peer, opt>>
    \/ /\ \E s \in {200, 400}, x \in BodyTexts, j \in UploadStartBodies :
             UploadStartResponse(s, x, j)
       /\ UNCHANGED <<peer, opt>>
    \/ /\ \E s \in {200, 201, 204, 403}, x \in BodyTexts : PutResponse(s, x)
       /\ UNCHANGED <<peer, opt>>
    \/ /\ \E s \in {200, 500}, x \in BodyTexts, j \in ExtractionStartBodies :
             ExtractionStartResponse(s, x, j)
       /\ UNCHANGED <<peer, opt>>
    \/ /\ PollCheck
       /\ UNCHANGED <<peer, opt>>
    \/ /\ \E s \in {200, 500}, x \in BodyTexts, j \in StatusBodies :
             StatusResponse(s, x, j)
       /\ UNCHANGED <<peer, opt>>
    \/ /\ Wake
       /\ UNCHANGED <<peer, opt>>
    \/ /\ Tick
       /\ UNCHANGED <<peer, opt>>
    \/ /\ \E e \in [VECTORIZE_API_TOKEN : EnvTokens, VECTORIZE_ORG_ID : EnvOrgs] :
             SetEnv(e)
       /\ UNCHANGED <<peer, opt>>

Spec == Init /\ [][Next]_vars

\* ---------------------------------------------- the call under fairness
\* The clock of a call that is followed to its end. Before the start
\* timestamp is taken it moves within MaxTime as in Tick; in the polling
\* loop it moves for as long as the elapsed time has not exceeded the
\* timeout, so that it can always come to exceed start_time + timeout.
TickLive ==
    /\ \/ pc \in {"upload_start", "byte_transfer", "extraction_start"}
          /\ now < MaxTime
       \/ pc \in {"poll_check", "status", "sleep"}
          /\ now - start_time <= timeout
    /\ now' = now + 1
    /\ UNCHANGED <<env, pc, args, params, upload_data, extraction_data,
                   start_time, result, trace, answers, response, outcome>>

\* WakeLive with a slip: the loop sleeps for no time at all.
WakeLiveEarly ==
    /\ pc = "sleep"
    /\ now' = now
    /\ pc' = "poll_check"
    /\ UNCHANGED <<env, args, params, upload_data, extraction_data, start_time,
                   result, trace, answers, response, outcome>>

\* time.sleep(poll_interval) / asyncio.sleep(poll_interval) is over; a sleep
\* is only entered with the elapsed time within the timeout, which bounds
\* the clock reading after it.
WakeLive ==
    /\ pc = "sleep"
    /\ now' = now + poll_interval
    /\ pc' = "poll_check"
    /\ UNCHANGED <<env, args, params, upload_data, extraction_data, start_time,
                   result, trace, answers, response, outcome>>

\* The environment configures both credentials and is left alone.
InitLive ==
    /\ Init
    /\ env = [VECTORIZE_API_TOKEN |-> "test-token", VECTORIZE_ORG_ID |-> "test-org-id"]

NextLive ==
    \/ /\ \E d \in Drivers, b \in ByteInputs, n \in NameInputs,
             i \in PollIntervals, t \in Timeouts :
             extract_text(d, b, n, None, None, i, t)
       /\ UNCHANGED <<peer, opt>>
    \/ /\ \E d \in Drivers, p \in Paths, i \in PollIntervals, t \in Timeouts :
             extract_text_from_file(d, p, None, None, i, t)
       /\ UNCHANGED <<peer, opt>>
    \/ /\ \E s \in {200, 400}, x \in BodyTexts, j \in UploadStartBodies :
             UploadStartResponse(s, x, j)
       /\ UNCHANGED <<peer, opt>>
    \/ /\ \E s \in {200, 201, 204, 403}, x \in BodyTexts : PutResponse(s, x)
       /\ UNCHANGED <<peer, opt>>
    \/ /\ \E s \in {200, 500}, x \in BodyTexts, j \in ExtractionStartBodies :
             ExtractionStartResponse(s, x, j)
       /\ UNCHANGED <<peer, opt>>
    \/ /\ PollCheck
       /\ UNCHANGED <<peer, opt>>
    \/ /\ \E s \in {200, 500}, x \in BodyTexts, j \in StatusBodies :
             StatusResponse(s, x, j)
       /\ UNCHANGED <<peer, opt>>
    \/ /\ WakeLive
       /\ UNCHANGED <<peer, opt>>
    \/ /\ TickLive
       /\ UNCHANGED <<peer, opt>>

\* Every request is answered in the end, every sleep ends, the driver takes
\* its next step when it can, and the clock keeps moving.
Fairness ==
    /\ WF_vars(/\ \E s \in {200, 400}, x \in BodyTexts, j \in UploadStartBodies :
                     UploadStartResponse(s, x, j)
               /\ UNCHANGED <<peer, opt>>)
    /\ WF_vars(/\ \E s \in {200, 201, 204, 403}, x \in BodyTexts :
                     PutResponse(s, x)
               /\ UNCHANGED <<peer, opt>>)
    /\ WF_vars(/\ \E s \in {200, 500}, x \in BodyTexts,
                     j \in ExtractionStartBodies :
                     ExtractionStartResponse(s, x, j)
               /\ UNCHANGED <<peer, opt>>)
    /\ WF_vars(/\ \E s \in {200, 500}, x \in BodyTexts, j \in StatusBodies :
                     StatusResponse(s, x, j)
               /\ UNCHANGED <<peer, opt>>)
    /\ WF_vars(PollCheck /\ UNCHANGED <<peer, opt>>)
    /\ WF_vars(WakeLive /\ UNCHANGED <<peer, opt>>)
    /\ WF_vars(TickLive /\ UNCHANGED <<peer, opt>>)

LiveSpec == InitLive /\ [][NextLive]_vars /\ Fairness

\* ------------------------------------------------- async_client, by itself
\* The call made through async_client is the record c of its locals; each
\* operator below is one stretch of _extract_from_bytes_async between two
\* awaits and gives the call as it stands after it. A stretch that is handed
\* to a call standing elsewhere leaves the call as it is.

\* The Content-Type a response declares.
ContentTypes == {"application/json", "text/plain"}
\* aiohttp's ClientResponse.json() decodes only a body declared as JSON and
\* raises ContentTypeError otherwise; requests' Response.json() decodes the
\* body whatever the response declares.
JsonMimetype(ctype) == ctype = "application/json"
ContentTypeError(ctype) ==
    [kind |-> "raised", exc |-> "ContentTypeError",
     msg |-> <<"Attempt to decode JSON with unexpected mimetype: ", ctype>>]

\* AsyncRaise with a slip: the session is not opened with "async with" and
\* is closed only where the function returns.
AsyncRaiseLeak(c, e) ==
    [c EXCEPT !.pc = "raised", !.outcome = e]

\* raise e, leaving "async with aiohttp.ClientSession() as session".
AsyncRaise(c, e) ==
    [c EXCEPT !.pc = "raised", !.outcome = e,
              !.session = IF @ = "open" THEN "closed" ELSE @]
\* return v, leaving the session block.
AsyncReturn(c, v) ==
    [c EXCEPT !.pc = "returned", !.outcome = Returned(v), !.session = "closed"]

\* _extract_from_bytes_async from its entry to its first await: the session
\* is opened and the POST to {base_url}/files is issued.
extract_from_bytes_async(c, content, name, token, org, interval, limit) ==
    [c EXCEPT !.api_token = token, !.org_id = org,
              !.poll_interval = interval, !.timeout = limit,
              !.file_content = content, !.file_name = name,
              !.session = "open",
              !.trace = Append(@, UploadStartRequest(token, org, name)),
              !.pc = "upload_start"]

\* extract_text_async, called in environment e.
extract_text_async(c, e, file_bytes, name, tok, org, interval, limit) ==
    LET token == PyOr(tok, e.VECTORIZE_API_TOKEN)
        org_ == PyOr(org, e.VECTORIZE_ORG_ID)
    IN IF c.pc # "idle" THEN c
       ELSE IF ~Truthy(token) \/ ~Truthy(org_)
       THEN AsyncRaise([c EXCEPT !.api_token = token, !.org_id = org_],
                       MissingCredentials)
       ELSE extract_from_bytes_async(c, file_bytes, name, token, org_,
                                     interval, limit)

\* extract_text_from_file_async, called in environment e.
extract_text_from_file_async(c, e, file_path, tok, org, interval, limit) ==
    LET token == PyOr(tok, e.VECTORIZE_API_TOKEN)
        org_ == PyOr(org, e.VECTORIZE_ORG_ID)
    IN IF c.pc # "idle" THEN c
       ELSE IF ~Truthy(token) \/ ~Truthy(org_)
       THEN AsyncRaise([c EXCEPT !.api_token = token, !.org_id = org_],
                       MissingCredentials)
       ELSE IF file_path \notin ExistingPaths
       THEN AsyncRaise([c EXCEPT !.api_token = token, !.org_id = org_],
                       FileNotFoundError(<<"File not found: ", file_path>>))
       ELSE extract_from_bytes_async(c, FileBytes[file_path],
                                     PathName[file_path], token, org_,
                                     interval, limit)

\* The answer to session.post(.../files) arrives.
AsyncUploadStartResponse(c, status, text, json, ctype) ==
    IF c.pc # "upload_start" THEN c
    ELSE IF status # 200
    THEN AsyncRaise(c, VectorizeIrisError(
             <<"Failed to start upload: ", StatusText[status], " - ", text>>))
    ELSE IF ~JsonMimetype(ctype)
    THEN AsyncRaise(c, ContentTypeError(ctype))
    ELSE IF ~StartFileUploadResponseValid(json)
    THEN AsyncRaise(c, ValidationError("StartFileUploadResponse"))
    ELSE [c EXCEPT !.upload_data = Some(StartFileUploadResponse(json)),
                   !.trace = Append(@,
                       ByteTransferRequest(StartFileUploadResponse(json).upload_url,
                                           c.file_content)),
                   !.pc = "byte_transfer"]

\* The answer to session.put(upload_url) arrives.
AsyncPutResponse(c, status, text) ==
    IF c.pc # "byte_transfer" THEN c
    ELSE IF status \notin {200, 201, 204}
    THEN AsyncRaise(c, VectorizeIrisError(
             <<"Failed to upload file: ", StatusText[status], " - ", text>>))
    ELSE [c EXCEPT !.trace = Append(@,
                       ExtractionStartRequest(c.api_token, c.org_id,
                           to_extraction_request(ExtractionOptions,
                                                 c.upload_data[1].file_id))),
                   !.pc = "extraction_start"]

\* The answer to session.post(.../extraction) arrives; on success the event
\* loop's clock is read into start_time.
AsyncExtractionStartResponse(c, status, text, json, ctype, clock) ==
    IF c.pc # "extraction_start" THEN c
    ELSE IF status # 200
    THEN AsyncRaise(c, VectorizeIrisError(
             <<"Failed to start extraction: ", StatusText[status], " - ", text>>))
    ELSE IF ~JsonMimetype(ctype)
    THEN AsyncRaise(c, ContentTypeError(ctype))
    ELSE IF ~StartExtractionResponseValid(json)
    THEN AsyncRaise(c, ValidationError("StartExtractionResponse"))
    ELSE [c EXCEPT !.extraction_data = Some(StartExtractionResponse(json)),
                   !.start_time = clock,
                   !.pc = "poll_check"]

\* Top of the polling loop of the async driver.
AsyncPollCheck(c, clock) ==
    IF c.pc # "poll_check" THEN c
    ELSE IF clock - c.start_time > c.timeout
    THEN AsyncRaise(c, VectorizeIrisError(
             <<"Extraction timed out after ", IntText[c.timeout], " seconds">>))
    ELSE [c EXCEPT !.trace = Append(@,
                       StatusRequest(c.api_token, c.org_id,
                                     c.extraction_data[1].extraction_id)),
                   !.pc = "status"]

\* The answer to session.get(.../extraction/{id}) arrives.
AsyncStatusResponse(c, status, text, json, ctype) ==
    IF c.pc # "status" THEN c
    ELSE IF status # 200
    THEN AsyncRaise(c, VectorizeIrisError(
             <<"Failed to check status: ", StatusText[status], " - ", text>>))
    ELSE IF ~JsonMimetype(ctype)
    THEN AsyncRaise(c, ContentTypeError(ctype))
    ELSE IF ~ExtractionResultValid(json)
    THEN AsyncRaise(c, ValidationError("ExtractionResult"))
    ELSE LET res == ExtractionResult(json)
             d == [c EXCEPT !.result = Some(res)]
         IN IF res.ready
            THEN IF res.data = Absent
                 THEN AsyncRaise(d, VectorizeIrisError(
                          <<"Extraction completed but no data was returned">>))
                 ELSE IF ~res.data[1].success
                 THEN AsyncRaise(d, VectorizeIrisError(
                          <<"Extraction failed: ",
                            PyOr(res.data[1].error, "Unknown error")>>))
                 ELSE AsyncReturn(d, res.data[1])
            ELSE [d EXCEPT !.trace = Append(@, Sleep(c.poll_interval)),
                           !.pc = "sleep"]

\* asyncio.sleep(poll_interval) is over.
AsyncWake(c) ==
    IF c.pc # "sleep" THEN c ELSE [c EXCEPT !.pc = "poll_check"]

\* ------------------------------------------------- the two drivers, paired
\* The same call is made through client and through async_client, and every
\* response and every clock reading handed to the one is handed to the
\* other: each step below is a step of the blocking driver together with
\* the same stretch of the cooperative one.
TwinNext ==
    \/ \E b \in ByteInputs, n \in NameInputs, tok \in ArgTokens, org \in ArgOrgs,
          i \in PollIntervals, t \in Timeouts :
          /\ extract_text("sync", b, n, tok, org, i, t)
          /\ peer' = extract_text_async(peer, env, b, n, tok, org, i, t)
          /\ UNCHANGED opt
    \/ \E p \in Paths, tok \in ArgTokens, org \in ArgOrgs,
          i \in PollIntervals, t \in Timeouts :
          /\ extract_text_from_file("sync", p, tok, org, i, t)
          /\ peer' = extract_text_from_file_async(peer, env, p, tok, org, i, t)
          /\ UNCHANGED opt
    \/ \E s \in {200, 400}, x \in BodyTexts, j \in UploadStartBodies,
          ct \in ContentTypes :
          /\ UploadStartResponse(s, x, j)
          /\ peer' = AsyncUploadStartResponse(peer, s, x, j, ct)
          /\ UNCHANGED opt
    \/ \E s \in {200, 201, 204, 403}, x \in BodyTexts :
          /\ PutResponse(s, x)
          /\ peer' = AsyncPutResponse(peer, s, x)
          /\ UNCHANGED opt
    \/ \E s \in {200, 500}, x \in BodyTexts, j \in ExtractionStartBodies,
          ct \in ContentTypes :
          /\ ExtractionStartResponse(s, x, j)
          /\ peer' = AsyncExtractionStartResponse(peer, s, x, j, ct, now)
          /\ UNCHANGED opt
    \/ /\ PollCheck
       /\ peer' = AsyncPollCheck(peer, now)
       /\ UNCHANGED opt
    \/ \E s \in {200, 500}, x \in BodyTexts, j \in StatusBodies,
          ct \in ContentTypes :
          /\ StatusResponse(s, x, j)
          /\ peer' = AsyncStatusResponse(peer, s, x, j, ct)
          /\ UNCHANGED opt
    \/ /\ Wake
       /\ peer' = AsyncWake(peer)
       /\ UNCHANGED opt
    \/ /\ Tick
       /\ UNCHANGED <<peer, opt>>

TwinSpec == Init /\ [][TwinNext]_vars

\* ------------------------------------------------- two calls at a time
\* A call through client or async_client (the variables of the module) and a
\* call through async_client (peer) are in progress in one process: both
\* read its environment and its clock, and a step of the one is taken
\* between any two steps of the other.

\* What belongs to the first call: its arguments, its locals, what it did
\* and how it ended.
own == <<pc, args, api_token, org_id, poll_interval, timeout, file_content,
         file_name, upload_data, extraction_data, start_time, result, trace,
         response, answers, outcome, consulted>>

\* What the service answers while two calls are followed.
ConcTexts == {"Forbidden"}
ConcStatusBodies ==
    { [ready |-> FALSE],
      [ready |-> TRUE, data |-> [success |-> TRUE, text |-> "X"]] }
\* The upload slot and the extraction the service hands to the second call.
PeerUploadStartBody ==
    [fileId |-> "file-456", uploadUrl |-> "https://upload.example.com/456"]
PeerExtractionStartBody ==
    [message |-> "started", extractionId |-> "extraction-456"]
\* Number of status requests the second call has issued so far.
PeerStatusRequests ==
    Cardinality({i \in 1..Len(peer.trace) :
                   peer.trace[i].ev = "request" /\ peer.trace[i].step = "status"})

\* The second call is made.
PeerCall(b, n, tok, org, i, t) ==
    /\ peer.pc = "idle"
    /\ peer' = extract_text_async(peer, env, b, n, tok, org, i, t)
    /\ UNCHANGED opt
    /\ UNCHANGED <<env, now, own>>

\* The service answers the second call's POST /files.
PeerUploadStartResponse(status, text, json, ctype) ==
    /\ peer.pc = "upload_start"
    /\ peer' = AsyncUploadStartResponse(peer, status, text, json, ctype)
    /\ UNCHANGED opt
    /\ UNCHANGED <<env, now, own>>

\* The second call's PUT is answered.
PeerPutResponse(status, text) ==
    /\ peer.pc = "byte_transfer"
    /\ peer' = AsyncPutResponse(peer, status, text)
    /\ UNCHANGED opt
    /\ UNCHANGED <<env, now, own>>

\* PeerExtractionStartResponse with a slip: start_time is kept in a variable
\* of the module, which every call in the process writes.
PeerExtractionStartResponseGlobal(status, text, json, ctype) ==
    /\ peer.pc = "extraction_start"
    /\ peer' = AsyncExtractionStartResponse(peer, status, text, json, ctype, now)
    /\ UNCHANGED opt
    /\ start_time' = IF peer'.pc = "poll_check" THEN now ELSE start_time
    /\ UNCHANGED <<env, now, pc, args, params, upload_data, extraction_data,
                   result, trace, response, answers, outcome>>

\* The second call's POST /extraction is answered.
PeerExtractionStartResponse(status, text, json, ctype) ==
    /\ peer.pc = "extraction_start"
    /\ peer' = AsyncExtractionStartResponse(peer, status, text, json, ctype, now)
    /\ UNCHANGED opt
    /\ UNCHANGED <<env, now, own>>

\* The second call is at the top of its polling loop.
PeerPollCheck ==
    /\ peer.pc = "poll_check"
    /\ now - peer.start_time > peer.timeout \/ PeerStatusRequests < MaxPolls
    /\ peer' = AsyncPollCheck(peer, now)
    /\ UNCHANGED opt
    /\ UNCHANGED <<env, now, own>>

\* The second call's GET /extraction/{id} is answered.
PeerStatusResponse(status, text, json, ctype) ==
    /\ peer.pc = "status"
    /\ peer' = AsyncStatusResponse(peer, status, text, json, ctype)
    /\ UNCHANGED opt
    /\ UNCHANGED <<env, now, own>>

\* The second call's asyncio.sleep(poll_interval) is over.
PeerWake ==
    /\ peer.pc = "sleep"
    /\ now + peer.poll_interval <= MaxTime
    /\ now' = now + peer.poll_interval
    /\ peer' = AsyncWake(peer)
    /\ UNCHANGED opt
    /\ UNCHANGED <<env, own>>

ConcNext ==
    \/ /\ \E d \in Drivers, b \in ByteInputs, n \in NameInputs, t \in Timeouts :
             extract_text(d, b, n, "custom-token", "custom-org", 1, t)
       /\ UNCHANGED <<peer, opt>>
    \/ /\ \E s \in {200, 400}, x \in ConcTexts :
             UploadStartResponse(s, x,
                 [fileId |-> "file-123", uploadUrl |-> "https://upload.example.com"])
       /\ UNCHANGED <<peer, opt>>
    \/ /\ \E s \in {200, 403}, x \in ConcTexts : PutResponse(s, x)
       /\ UNCHANGED <<peer, opt>>
    \/ /\ \E s \in {200, 500}, x \in ConcTexts :
             ExtractionStartResponse(s, x,
                 [message |-> "started", extractionId |-> "extraction-123"])
       /\ UNCHANGED <<peer, opt>>
    \/ /\ PollCheck
       /\ UNCHANGED <<peer, opt>>
    \/ /\ \E s \in {200, 500}, x \in ConcTexts, j \in ConcStatusBodies :
             StatusResponse(s, x, j)
       /\ UNCHANGED <<peer, opt>>
    \/ /\ Wake
       /\ UNCHANGED <<peer, opt>>
    \/ /\ Tick
       /\ UNCHANGED <<peer, opt>>
    \/ \E b \in ByteInputs, n \in NameInputs, t \in Timeouts :
          PeerCall(b, n, None, None, 1, t)
    \/ \E s \in {200, 400}, x \in ConcTexts :
          PeerUploadStartResponse(s, x, PeerUploadStartBody, "application/json")
    \/ \E s \in {200, 403}, x \in ConcTexts : PeerPutResponse(s, x)
    \/ \E s \in {200, 500}, x \in ConcTexts :
          PeerExtractionStartResponse(s, x, PeerExtractionStartBody,
                                      "application/json")
    \/ PeerPollCheck
    \/ \E s \in {200, 500}, x \in ConcTexts, j \in ConcStatusBodies :
          PeerStatusResponse(s, x, j, "application/json")
    \/ PeerWake

ConcSpec == InitLive /\ [][ConcNext]_vars

\* ------------------------------------------------- options, by themselves
\* What a caller may build an ExtractionOptions object from.
SchemaDicts ==
    { <<[k |-> "title", v |-> [s |-> "string"]]>>,
      <<[k |-> "author", v |-> [s |-> "string"]], [k |-> "pages", v |-> [n |-> 3]],
        [k |-> "draft", v |-> [b |-> TRUE]], [k |-> "note", v |-> JsonNull]>> }
SchemaTexts == { <<[raw |-> "Extract: title, author, date"]>> }
SchemaValues == { [dict |-> d] : d \in SchemaDicts } \cup { [str |-> t] : t \in SchemaTexts }
SchemaIds == {"doc-meta"}
\* A list item as the caller writes it: a MetadataExtractionStrategySchema(...)
\* expression or a dict literal, with the id and the schema given.
ItemSpecs == [kind : {"object", "dict"}, id : SchemaIds, schema : SchemaValues]
SchemaLists == UNION { [1..n -> ItemSpecs] : n \in 0..MaxSchemas }
ChunkSizes == {512}
Instructions == {"Extract tables only"}
FileIds == {"file-123", "file-456"}
KwArgs(K, c, m, i, p) ==
    [k \in K |-> CASE k = "chunk_size" -> c
                   [] k = "metadata_schemas" -> m
                   [] k = "infer_metadata_schema" -> i
                   [] k = "parsing_instructions" -> p]
\* The Python value a list item evaluates to.
BuildItem(spec) ==
    IF spec.kind = "object"
    THEN [object |-> MetadataExtractionStrategySchema(spec.id, spec.schema)]
    ELSE [dict |-> [id |-> spec.id, schema |-> spec.schema]]
\* The keyword arguments as ExtractionOptions receives them.
Arguments(kw) ==
    [k \in DOMAIN kw |->
       IF k = "metadata_schemas" /\ kw[k] # Absent
       THEN Some([j \in 1..Len(kw[k][1]) |-> BuildItem(kw[k][1][j])])
       ELSE kw[k]]

\* options = ExtractionOptions(**kw)
NewOptions(kw) ==
    /\ opt.stage = "none"
    /\ opt' = [stage |-> "options", given |-> kw,
               options |-> ExtractionOptionsOf(Arguments(kw))]
    /\ UNCHANGED <<env, now, own, peer>>

\* extraction_request = options.to_extraction_request(file_id)
ToRequest(file_id) ==
    /\ opt.stage = "options"
    /\ opt' = [stage |-> "request", given |-> opt.given, options |-> opt.options,
               file_id |-> file_id,
               request |-> to_extraction_request(opt.options, file_id)]
    /\ UNCHANGED <<env, now, own, peer>>

\* json=extraction_request.model_dump(by_alias=True, exclude_none=True)
Dump ==
    /\ opt.stage = "request"
    /\ opt' = [stage |-> "wire", given |-> opt.given, options |-> opt.options,
               file_id |-> opt.file_id, request |-> opt.request,
               wire |-> DumpExtractionRequest(opt.request)]
    /\ UNCHANGED <<env, now, own, peer>>

OptNext ==
    \/ \E K \in SUBSET OptionKeys :
          \E c \in IF "chunk_size" \in K
                    THEN {Absent} \cup { Some(n) : n \in ChunkSizes } ELSE {Absent},
             m \in IF "metadata_schemas" \in K
                    THEN {Absent} \cup { Some(l) : l \in SchemaLists } ELSE {Absent},
             i \in IF "infer_metadata_schema" \in K
                    THEN {Absent, Some(TRUE), Some(FALSE)} ELSE {Absent},
             p \in IF "parsing_instructions" \in K
                    THEN {None} \cup Instructions ELSE {None} :
             NewOptions(KwArgs(K, c, m, i, p))
    \/ \E f \in FileIds : ToRequest(f)
    \/ Dump

OptSpec == InitLive /\ [][OptNext]_vars

\* ------------------------------------------- a call that leaves out the options
\* An answer is a long time coming: the clock moves on by the default
\* timeout while the call waits in the polling loop.
LongWait ==
    /\ pc \in {"status", "sleep"}
    /\ now <= MaxTime
    /\ now' = now + DefaultTimeout
    /\ UNCHANGED <<env, pc, args, params, upload_data, extraction_data,
                   start_time, result, trace, answers, response, outcome>>

\* The entry points called without poll_interval, timeout and options.
DefaultNext ==
    \/ /\ \E d \in Drivers, b \in ByteInputs, n \in NameInputs :
             extract_text(d, b, n, None, None, DefaultPollInterval, DefaultTimeout)
       /\ UNCHANGED <<peer, opt>>
    \/ /\ \E d \in Drivers, p \in Paths :
             extract_text_from_file(d, p, None, None,
                                    DefaultPollInterval, DefaultTimeout)
       /\ UNCHANGED <<peer, opt>>
    \/ /\ \E s \in {200, 400}, x \in BodyTexts, j \in UploadStartBodies :
             UploadStartResponse(s, x, j)
       /\ UNCHANGED <<peer, opt>>
    \/ /\ \E s \in {200, 201, 204, 403}, x \in BodyTexts : PutResponse(s, x)
       /\ UNCHANGED <<peer, opt>>
    \/ /\ \E s \in {200, 500}, x \in BodyTexts, j \in ExtractionStartBodies :
             ExtractionStartResponse(s, x, j)
       /\ UNCHANGED <<peer, opt>>
    \/ /\ PollCheck
       /\ UNCHANGED <<peer, opt>>
    \/ /\ \E s \in {200, 500}, x \in BodyTexts, j \in StatusBodies :
             StatusResponse(s, x, j)
       /\ UNCHANGED <<peer, opt>>
    \/ /\ WakeLive
       /\ UNCHANGED <<peer, opt>>
    \/ /\ Tick
       /\ UNCHANGED <<peer, opt>>
    \/ /\ LongWait
       /\ UNCHANGED <<peer, opt>>

DefaultSpec == InitLive /\ [][DefaultNext]_vars

\* ------------------------------------------------- how often a call polls
\* Positive poll intervals, and timeouts from negative to above the
\* interval.
PositiveIntervals == {1, 2}
SignedTimeouts == {-1, 0, 1, 2}

\* Calls that sleep for a positive time between polls; the clock never goes
\* back and a sleep takes at least the poll interval.
PollNext ==
    \/ /\ \E d \in Drivers, b \in ByteInputs, n \in NameInputs,
             i \in PositiveIntervals, t \in SignedTimeouts :
             extract_text(d, b, n, None, None, i, t)
       /\ UNCHANGED <<peer, opt>>
    \/ /\ \E s \in {200, 400}, x \in BodyTexts, j \in UploadStartBodies :
             UploadStartResponse(s, x, j)
       /\ UNCHANGED <<peer, opt>>
    \/ /\ \E s \in {200, 403}, x \in BodyTexts : PutResponse(s, x)
       /\ UNCHANGED <<peer, opt>>
    \/ /\ \E s \in {200, 500}, x \in BodyTexts, j \in ExtractionStartBodies :
             ExtractionStartResponse(s, x, j)
       /\ UNCHANGED <<peer, opt>>
    \/ /\ PollCheck
       /\ UNCHANGED <<peer, opt>>
    \/ /\ \E s \in {200, 500}, x \in BodyTexts, j \in StatusBodies :
             StatusResponse(s, x, j)
       /\ UNCHANGED <<peer, opt>>
    \/ /\ WakeLive
       /\ UNCHANGED <<peer, opt>>
    \/ /\ TickLive
       /\ UNCHANGED <<peer, opt>>

PollSpec == InitLive /\ [][PollNext]_vars

\* ------------------------------------------------------------ properties
\* The state of the call in the words of the design: each state up to
\* Polling is named after the last request issued.
State ==
    CASE pc = "idle" -> "Init"
      [] pc = "upload_start" -> "UploadStarted"
      [] pc = "byte_transfer" -> "Uploaded"
      [] pc = "extraction_start" -> "ExtractionStarted"
      [] pc \in {"poll_check", "status", "sleep"} -> "Polling"
      [] pc = "returned" -> "Completed"
      [] pc = "raised" ->
           IF outcome.exc = "VectorizeIrisError"
              /\ outcome.msg[1] = "Extraction timed out after "
           THEN "TimedOut" ELSE "Failed"
Rank(st) ==
    CASE st = "Init" -> 0
      [] st = "UploadStarted" -> 1
      [] st = "Uploaded" -> 2
      [] st = "ExtractionStarted" -> 3
      [] st = "Polling" -> 4
      [] st \in {"Completed", "Failed", "TimedOut"} -> 5
Terminal == pc \in {"returned", "raised"}
Last(seq) == seq[Len(seq)]

\* The requests come in the order upload-start, byte transfer,
\* extraction-start, then status polls only.
RequestOrder ==
    \A i \in 1..Len(Requests) :
        Requests[i].step = CASE i = 1 -> "upload_start"
                             [] i = 2 -> "byte_transfer"
                             [] i = 3 -> "extraction_start"
                             [] OTHER -> "status"

\* One step of the call respects the chain of states.
ChainStep ==
    /\ Rank(State') >= Rank(State)
    /\ State' # State =>
         \/ State' = "Failed"
         \/ Rank(State') = Rank(State) + 1 /\ Rank(State') <= 4
         \/ State = "Polling" /\ State' \in {"Completed", "TimedOut"}
    /\ (State' = State /\ pc' # pc) => State = "Polling"
    /\ (pc = "status" /\ pc' # pc /\ State' = "Polling") =>
         /\ pc' = "sleep"
         /\ Last(answers').status = 200
         /\ Last(answers').json.ready = FALSE

\* C1: the state of a call only moves forward along Init, UploadStarted,
\* Uploaded, ExtractionStarted, Polling and from there to Completed or
\* TimedOut (or, from any state, to Failed); it never goes back, the only
\* state the call moves within is Polling, which it re-enters only after a
\* status that is not ready, and the requests are issued in the order
\* upload-start, byte transfer, extraction-start, status polls.
C1_LinearStateMachine == []RequestOrder /\ [][ChainStep]_vars

\* A call that went round the polling loop and completed.
C1_Witness == pc = "returned" /\ StatusRequests = 2

\* An answer to a status request that says: not ready.
NotReady(a) ==
    a.status = 200 /\ "ready" \in DOMAIN a.json /\ a.json.ready = FALSE
\* An answer to a status request that says: ready, with a success payload.
ReadySuccess(a) ==
    /\ a.status = 200
    /\ "ready" \in DOMAIN a.json /\ a.json.ready = TRUE
    /\ HasData(a.json)
    /\ "success" \in DOMAIN a.json.data /\ a.json.data.success = TRUE
NotReadyAnswers == Cardinality({i \in 1..Len(answers) : NotReady(answers[i])})
IsRequest(e, step, method) ==
    e.ev = "request" /\ e.step = step /\ e.method = method

\* The trace of a call that polled k+1 times: two POSTs around one PUT, then
\* k times a status request followed by a sleep of the poll interval, then
\* one last status request.
PolledTrace(k) ==
    /\ Len(trace) = 3 + 2 * k + 1
    /\ IsRequest(trace[1], "upload_start", "POST")
    /\ IsRequest(trace[2], "byte_transfer", "PUT")
    /\ IsRequest(trace[3], "extraction_start", "POST")
    /\ \A j \in 1..k :
          /\ IsRequest(trace[2 + 2 * j], "status", "GET")
          /\ trace[3 + 2 * j] = Sleep(poll_interval)
    /\ IsRequest(trace[4 + 2 * k], "status", "GET")
    /\ StatusRequests = k + 1

\* C2: when the status requests were answered by k not-ready statuses and
\* then a ready status with a success payload, the call has returned that
\* payload after exactly k+1 status requests, preceded by exactly two POSTs
\* and one PUT, and it has slept for the poll interval exactly k times, once
\* after each not-ready status and never before the first status request.
C2_PollUntilReady ==
    (answers # <<>> /\ ReadySuccess(Last(answers))) =>
        /\ pc = "returned"
        /\ outcome = Returned(ExtractionResultData(Last(answers).json.data))
        /\ NotReadyAnswers = Len(answers) - 1
        /\ PolledTrace(NotReadyAnswers)

\* A call that returned after one not-ready status and one ready status.
C2_Witness ==
    /\ pc = "returned"
    /\ Len(answers) = 2
    /\ NotReady(answers[1]) /\ ReadySuccess(answers[2])
    /\ outcome.value.text = "X"

\* The error the spec calls ExtractionTimeout, for the call's timeout.
IsExtractionTimeout(o) ==
    /\ o.kind = "raised" /\ o.exc = "VectorizeIrisError"
    /\ o.msg = <<"Extraction timed out after ", IntText[timeout], " seconds">>

\* C3: a status request is only ever issued from the check at the top of
\* the loop, with the time elapsed since start_time not above the timeout;
\* and when the call leaves that check with the elapsed time above the
\* timeout, it has raised ExtractionTimeout and issued no request, whatever
\* number of status requests came before (none included).
C3_TimeoutBeforeEachPoll ==
    [][ /\ (pc = "poll_check" /\ pc' # pc /\ now - start_time > timeout) =>
              /\ pc' = "raised" /\ IsExtractionTimeout(outcome')
              /\ trace' = trace /\ answers' = answers
        /\ StatusRequests' > StatusRequests =>
              pc = "poll_check" /\ now - start_time <= timeout ]_vars

\* The timeout fired at the very first check: no status request was made.
C3_Witness ==
    /\ pc = "raised" /\ IsExtractionTimeout(outcome)
    /\ StatusRequests = 0 /\ Len(trace) = 3
    /\ now - start_time > timeout

\* The call returned the payload of the given status answer, field by field.
ReturnedPayloadOf(a) ==
    /\ outcome.kind = "returned"
    /\ \A k \in DOMAIN a.json.data : outcome.value[k] = a.json.data[k]
    /\ \A k \in DOMAIN outcome.value :
          k \notin DOMAIN a.json.data => outcome.value[k] = None

\* C4: a call returns a value only as the payload, unchanged, of the last
\* status answer, which was ready with success = true; a call that has ended
\* in any other way has raised an error, and a call still in progress has
\* returned nothing.
C4_NoPartialResults ==
    /\ outcome.kind = "returned" =>
          /\ pc = "returned"
          /\ answers # <<>> /\ ReadySuccess(Last(answers))
          /\ ReturnedPayloadOf(Last(answers))
    /\ (Terminal /\ ~(answers # <<>> /\ ReadySuccess(Last(answers)))) =>
          pc = "raised" /\ outcome.kind = "raised"
    /\ ~Terminal => outcome = NoOutcome

\* A success payload that also carries optional fields came back whole.
C4_Witness ==
    /\ pc = "returned"
    /\ outcome.value = [success |-> TRUE, text |-> "X",
                        error |-> "Invalid file format"]
    /\ Last(answers).json.data.error = "Invalid file format"

\* An answer to a status request that says: ready, with a failure payload.
ReadyFailure(a) ==
    /\ a.status = 200
    /\ "ready" \in DOMAIN a.json /\ a.json.ready = TRUE
    /\ HasData(a.json)
    /\ "success" \in DOMAIN a.json.data /\ a.json.data.success = FALSE
\* An answer to a status request that says: ready, without payload.
ReadyNoData(a) ==
    /\ a.status = 200
    /\ "ready" \in DOMAIN a.json /\ a.json.ready = TRUE
    /\ ~HasData(a.json)
\* The error text of a failure payload, if it has a non-empty one.
HasErrorText(data) == "error" \in DOMAIN data /\ data.error # ""
\* The last thing the call did was the status request just answered.
NothingAfterLastAnswer ==
    /\ IsRequest(Last(trace), "status", "GET")
    /\ StatusRequests = Len(answers)

\* C5: once a status answer is ready with success = false, the call has
\* raised "Extraction failed: " followed by the payload's error text, or by
\* "Unknown error" when that text is empty or missing, and no request has
\* been issued after that status request.
C5_ExtractionFailed ==
    (answers # <<>> /\ ReadyFailure(Last(answers))) =>
        LET data == Last(answers).json.data
        IN /\ pc = "raised"
           /\ outcome.exc = "VectorizeIrisError"
           /\ Len(outcome.msg) = 2 /\ outcome.msg[1] = "Extraction failed: "
           /\ HasErrorText(data) => outcome.msg[2] = data.error
           /\ ~HasErrorText(data) => outcome.msg[2] = "Unknown error"
           /\ NothingAfterLastAnswer

\* A failure payload with an empty error text was reported as "Unknown error".
C5_Witness ==
    /\ pc = "raised"
    /\ answers # <<>> /\ ReadyFailure(Last(answers))
    /\ Last(answers).json.data = [success |-> FALSE, error |-> ""]
    /\ outcome.msg = <<"Extraction failed: ", "Unknown error">>

\* C6: once a status answer is ready without payload, the call has raised
\* "Extraction completed but no data was returned"; that error is never the
\* one raised for a ready failure payload, whose message starts with
\* "Extraction failed: " also when its error text is empty.
C6_NoDataReturned ==
    /\ (answers # <<>> /\ ReadyNoData(Last(answers))) =>
          /\ pc = "raised"
          /\ outcome.exc = "VectorizeIrisError"
          /\ outcome.msg = <<"Extraction completed but no data was returned">>
          /\ ~Contains(outcome.msg, "Unknown error")
          /\ NothingAfterLastAnswer
    /\ (answers # <<>> /\ ReadyFailure(Last(answers))) =>
          /\ pc = "raised"
          /\ outcome.msg[1] = "Extraction failed: "
          /\ outcome.msg # <<"Extraction completed but no data was returned">>

\* A ready status whose data is null ended the call with the no-data error.
C6_Witness ==
    /\ pc = "raised"
    /\ answers # <<>> /\ ReadyNoData(Last(answers))
    /\ Last(answers).json = [ready |-> TRUE, data |-> JsonNull]
    /\ outcome.msg = <<"Extraction completed but no data was returned">>

\* No source has a usable token or organization id: the explicit arguments
\* a are None or empty and the environment e has neither variable set.
NoCredentialSource(a, e) ==
    /\ a.api_token \in {None, ""} /\ a.org_id \in {None, ""}
    /\ e.VECTORIZE_API_TOKEN \in {None, ""} /\ e.VECTORIZE_ORG_ID \in {None, ""}
IsMissingCredentials(o) ==
    /\ o.kind = "raised" /\ o.exc = "VectorizeIrisError"
    /\ o.msg[1] = "Missing credentials. Set VECTORIZE_API_TOKEN and VECTORIZE_ORG_ID environment variables or pass them as parameters."
\* The step by which an entry point is called.
Called == pc = "idle" /\ pc' # "idle"

\* C7: an entry point (bytes or path, blocking or cooperative) called while
\* neither the arguments nor the environment hold credentials raises the
\* missing-credentials error at once, and a call that raised it has issued
\* no request.
C7_MissingCredentialsNoRequest ==
    /\ [][(Called /\ NoCredentialSource(args', env)) =>
             pc' = "raised" /\ IsMissingCredentials(outcome') /\ trace' = <<>>]_vars
    /\ [](IsMissingCredentials(outcome) => Terminal /\ trace = <<>>)

\* The path entry point of the cooperative driver failed without credentials.
C7_Witness ==
    /\ pc = "raised" /\ IsMissingCredentials(outcome)
    /\ args.entry = "file" /\ args.driver = "async"
    /\ NoCredentialSource(args, env)
    /\ trace = <<>>

\* The JSON requests of the call: all but the byte transfer.
JsonRequests == SelectSeq(Requests, LAMBDA r : r.step # "byte_transfer")

ArgsSupplyBoth(a) == a.api_token \notin {None, ""} /\ a.org_id \notin {None, ""}
EnvSuppliesBoth(e) ==
    e.VECTORIZE_API_TOKEN \notin {None, ""} /\ e.VECTORIZE_ORG_ID \notin {None, ""}
\* Field by field: the explicit value if it is a non-empty string, else the
\* environment's.
FieldValue(explicit, configured) ==
    IF explicit \notin {None, ""} THEN explicit ELSE configured

\* C9 as claimed: a call made when the explicit arguments do not supply
\* both credentials and the environment does not supply both either fails
\* at once with the missing-credentials error, before any request.
C9_AsClaimed ==
    [][(Called /\ ~ArgsSupplyBoth(args') /\ ~EnvSuppliesBoth(env)) =>
          pc' = "raised" /\ IsMissingCredentials(outcome') /\ trace' = <<>>]_vars

\* C9 amended: credentials are resolved once, at entry, field by field: the
\* token is the explicit one if that is non-empty and else the
\* environment's, and likewise the organization id; the call fails at once
\* with the missing-credentials error, before any request, exactly when the
\* token or the organization id is still missing after that, and the
\* resolved pair never changes afterwards.
C9_ResolvedPerField ==
    /\ [][Called =>
            LET token == FieldValue(args'.api_token, env.VECTORIZE_API_TOKEN)
                org == FieldValue(args'.org_id, env.VECTORIZE_ORG_ID)
            IN /\ api_token' = token /\ org_id' = org
               /\ (token \in {None, ""} \/ org \in {None, ""}) =>
                     pc' = "raised" /\ IsMissingCredentials(outcome') /\ trace' = <<>>
               /\ (token \notin {None, ""} /\ org \notin {None, ""}) =>
                     ~IsMissingCredentials(outcome')]_vars
    /\ [][pc # "idle" => api_token' = api_token /\ org_id' = org_id]_vars

\* A token was given but no source had an organization id: the call failed
\* before any request.
C9_Witness ==
    /\ pc = "raised" /\ IsMissingCredentials(outcome)
    /\ args.api_token = "custom-token" /\ args.org_id = None
    /\ env.VECTORIZE_ORG_ID = None
    /\ api_token = "custom-token"
    /\ trace = <<>>

\* C10: once the upload-start request has been answered with a status other
\* than 200, the call has raised "Failed to start upload: " with the status
\* code in decimal and the response body in its message, and the
\* upload-start request is the only request it has issued.
C10_UploadStartFailed ==
    (response.step = "upload_start" /\ response.status # 200) =>
        /\ pc = "raised"
        /\ outcome.exc = "VectorizeIrisError"
        /\ outcome.msg[1] = "Failed to start upload: "
        /\ response.status = 400 => Contains(outcome.msg, "400")
        /\ Contains(outcome.msg, StatusText[response.status])
        /\ Contains(outcome.msg, response.text)
        /\ Len(trace) = 1 /\ IsRequest(trace[1], "upload_start", "POST")

\* A 400 "Bad request" to upload-start ended the call after one request.
C10_Witness ==
    /\ pc = "raised"
    /\ response = Rejected("upload_start", 400, "Bad request")
    /\ outcome.msg = <<"Failed to start upload: ", "400", " - ", "Bad request">>
    /\ Len(trace) = 1

\* C11: once the byte transfer has been answered with a status outside
\* {200, 201, 204}, the call has raised "Failed to upload file: " with the
\* status code in decimal and the response body in its message, and the
\* extraction-start request has not been issued: upload-start and the byte
\* transfer are its only requests. Answered with 200, 201 or 204, the call
\* has gone on to issue the extraction-start request.
C11_UploadTransferFailed ==
    /\ (response.step = "byte_transfer" /\ response.status \notin {200, 201, 204}) =>
          /\ pc = "raised"
          /\ outcome.exc = "VectorizeIrisError"
          /\ outcome.msg = <<"Failed to upload file: ",
                             StatusText[response.status], " - ", response.text>>
          /\ response.status = 403 => Contains(outcome.msg, "403")
          /\ Len(trace) = 2
          /\ \A i \in 1..Len(trace) : ~IsRequest(trace[i], "extraction_start", "POST")
    /\ (response.step = "byte_transfer" /\ response.status \in {200, 201, 204}) =>
          /\ pc = "extraction_start"
          /\ outcome = NoOutcome
          /\ Len(trace) = 3 /\ IsRequest(trace[3], "extraction_start", "POST")

\* A 403 "Forbidden" to the byte transfer ended the call after two requests.
C11_Witness ==
    /\ pc = "raised"
    /\ response = Rejected("byte_transfer", 403, "Forbidden")
    /\ outcome.msg = <<"Failed to upload file: ", "403", " - ", "Forbidden">>
    /\ Len(trace) = 2 /\ IsRequest(trace[2], "byte_transfer", "PUT")

\* The path entry point is called with a path that does not exist.
CalledWithMissingFile ==
    Called /\ args'.entry = "file" /\ args'.file_path \notin ExistingPaths
IsFileNotFound(o, path) == o = FileNotFoundError(<<"File not found: ", path>>)

\* C12 as claimed: the path entry point called with a path that does not
\* exist fails with FileNotFoundError naming that path, and no request has
\* been issued.
C12_AsClaimed ==
    [][CalledWithMissingFile =>
          /\ pc' = "raised"
          /\ IsFileNotFound(outcome', args'.file_path)
          /\ trace' = <<>>]_vars

\* C12 amended: the path entry point called with a path that does not exist
\* fails at once and no request has been issued; the failure is
\* FileNotFoundError naming that path when a token and an organization id
\* have been resolved, and the missing-credentials error when not. A call
\* that raised FileNotFoundError has issued no request.
C12_FileNotFoundBeforeNetwork ==
    /\ [][CalledWithMissingFile =>
            /\ pc' = "raised" /\ trace' = <<>>
            /\ IF Truthy(FieldValue(args'.api_token, env.VECTORIZE_API_TOKEN))
                  /\ Truthy(FieldValue(args'.org_id, env.VECTORIZE_ORG_ID))
               THEN IsFileNotFound(outcome', args'.file_path)
               ELSE IsMissingCredentials(outcome')]_vars
    /\ []((outcome.kind = "raised" /\ outcome.exc = "FileNotFoundError") =>
             /\ Terminal /\ trace = <<>>
             /\ args.entry = "file" /\ args.file_path \notin ExistingPaths)

\* The cooperative path entry point failed on a path that does not exist,
\* with credentials from the environment.
C12_Witness ==
    /\ pc = "raised"
    /\ args.entry = "file" /\ args.driver = "async"
    /\ args.file_path = "/nonexistent/file.pdf"
    /\ outcome = FileNotFoundError(<<"File not found: ", "/nonexistent/file.pdf">>)
    /\ api_token = "test-token" /\ org_id = "test-org-id"
    /\ trace = <<>>

\* The number of requests of one step issued so far.
RequestCount(step) ==
    Cardinality({i \in 1..Len(trace) :
                   trace[i].ev = "request" /\ trace[i].step = step})
\* The last response had a status the step does not accept.
Refused == "text" \in DOMAIN response

\* C13: the upload-start, byte-transfer and extraction-start requests are
\* each issued at most once; once a response was refused for its status the
\* call has raised, its last request is the refused one and its trace never
\* grows again; a status request beyond the first is issued only when the
\* status request before it was answered "not ready", so there is at most
\* one status request more than there are not-ready answers.
C13_NothingRetried ==
    /\ [](/\ \A step \in {"upload_start", "byte_transfer", "extraction_start"} :
                RequestCount(step) <= 1
          /\ StatusRequests <= NotReadyAnswers + 1
          /\ Refused =>
                /\ pc = "raised"
                /\ IsRequest(Last(trace), response.step, Last(trace).method))
    /\ [][Refused => trace' = trace]_vars
    /\ [][(StatusRequests' > StatusRequests /\ StatusRequests >= 1) =>
             /\ StatusRequests' = StatusRequests + 1
             /\ NotReady(Last(answers))
             /\ Len(answers) = StatusRequests]_vars

\* The second status request was refused with 500 and the call ended there.
C13_Witness ==
    /\ pc = "raised"
    /\ response = Rejected("status", 500, "Forbidden")
    /\ StatusRequests = 2 /\ NotReadyAnswers = 1
    /\ RequestCount("upload_start") = 1
    /\ RequestCount("byte_transfer") = 1
    /\ RequestCount("extraction_start") = 1

\* How the error of a refused response begins, step by step.
FailurePrefix(step) ==
    CASE step = "upload_start" -> "Failed to start upload: "
      [] step = "byte_transfer" -> "Failed to upload file: "
      [] step = "extraction_start" -> "Failed to start extraction: "
      [] step = "status" -> "Failed to check status: "

\* C14: once a response was refused for its status, at whichever of the four
\* steps, the call has raised the error of that step and its message holds
\* the status code in decimal and the response body as received; a refused
\* extraction-start gives "Failed to start extraction: " and no status
\* request has been made, a refused status poll gives
\* "Failed to check status: ".
C14_HttpErrorsCarryStatusAndBody ==
    Refused =>
        /\ pc = "raised"
        /\ outcome.exc = "VectorizeIrisError"
        /\ Len(outcome.msg) = 4
        /\ outcome.msg[1] = FailurePrefix(response.step)
        /\ outcome.msg[2] = StatusText[response.status]
        /\ response.status = 500 => outcome.msg[2] = "500"
        /\ outcome.msg[4] = response.text
        /\ response.step = "extraction_start" =>
              /\ outcome.msg[1] = "Failed to start extraction: "
              /\ StatusRequests = 0 /\ Len(trace) = 3
        /\ response.step = "status" =>
              /\ outcome.msg[1] = "Failed to check status: "
              /\ Last(answers) = [status |-> response.status, text |-> response.text]

\* A 500 "Forbidden" to extraction-start ended the call after three requests.
C14_Witness ==
    /\ pc = "raised"
    /\ response = Rejected("extraction_start", 500, "Forbidden")
    /\ outcome.msg = <<"Failed to start extraction: ", "500", " - ", "Forbidden">>
    /\ Len(trace) = 3 /\ StatusRequests = 0

\* The call ended on a refused status poll.
StatusCheckFailed ==
    pc = "raised" /\ Refused /\ response.step = "status"
\* The call ended on the timeout check.
TimeoutRaised ==
    /\ pc = "raised" /\ outcome.exc = "VectorizeIrisError"
    /\ outcome.msg[1] = "Extraction timed out after "

\* C15 as claimed: the message of the timeout error holds the timeout the
\* call was given, and the message of a status-check error holds the
\* configured limits of the poll (the timeout) as well.
C15_AsClaimed ==
    /\ TimeoutRaised => Contains(outcome.msg, IntText[args.timeout])
    /\ StatusCheckFailed => Contains(outcome.msg, IntText[args.timeout])

\* C15 amended: the message of the timeout error holds the timeout the call
\* was given, in decimal; the message of a status-check error holds the
\* status code and the body of the refused response, and is made of these
\* alone: no limit the call was given is put into it.
C15_TimeoutCarriesLimit ==
    /\ TimeoutRaised =>
          outcome.msg = <<"Extraction timed out after ", IntText[args.timeout],
                          " seconds">>
    /\ StatusCheckFailed =>
          outcome.msg = <<"Failed to check status: ",
                          StatusText[response.status], " - ", response.text>>

\* A call given a timeout of 1 timed out when 2 seconds had elapsed.
C15_Witness ==
    /\ TimeoutRaised
    /\ args.timeout = 1 /\ now - start_time = 2
    /\ outcome.msg = <<"Extraction timed out after ", "1", " seconds">>

\* The time elapsed since the start timestamp, as the loop computes it.
Elapsed == now - start_time
\* The step issues a status request.
IssuesStatusRequest ==
    /\ Len(trace') = Len(trace) + 1
    /\ IsRequest(Last(trace'), "status", "GET")

\* C17: at the moment a status request is issued the time elapsed since the
\* start timestamp is not above the timeout, however late the clock already
\* was when the start timestamp was taken and however long earlier answers
\* took. What the check at the top of the loop does depends on the clock
\* alone: it raises the timeout error only with the elapsed time above the
\* timeout, and with the elapsed time within the timeout it issues the next
\* status request, whatever the number of status requests made before.
C17_WallClockBoundOnly ==
    [][ /\ IssuesStatusRequest => (now' = now /\ Elapsed <= timeout)
        /\ (pc = "poll_check" /\ pc' = "raised") => Elapsed > timeout
        /\ (pc = "poll_check" /\ pc' # pc /\ Elapsed <= timeout) =>
              /\ IssuesStatusRequest
              /\ StatusRequests' = StatusRequests + 1
              /\ outcome' = NoOutcome ]_vars

\* The upload phase took a second, and with timeout 0 and a clock that has
\* not moved since the start timestamp a second status request is out.
C17_Witness ==
    /\ pc = "status" /\ StatusRequests = 2
    /\ start_time = 1 /\ timeout = 0 /\ Elapsed = 0

\* The kinds of request the drivers issue.
RequestKinds ==
    {<<"upload_start", "POST">>, <<"byte_transfer", "PUT">>,
     <<"extraction_start", "POST">>, <<"status", "GET">>}

\* C18: the step that raises the timeout error issues no request, and from
\* then on the trace of the call never changes: what the call did last
\* before the timeout (the extraction-start request, or the sleep after a
\* not-ready status) is still the last entry of its trace. Every request a
\* call issues is an upload-start POST, a byte-transfer PUT, an
\* extraction-start POST or a status GET.
C18_NoRequestAfterTimeout ==
    /\ [](\A i \in 1..Len(Requests) :
             <<Requests[i].step, Requests[i].method>> \in RequestKinds)
    /\ [](TimeoutRaised =>
             \/ Len(trace) = 3 /\ IsRequest(Last(trace), "extraction_start", "POST")
             \/ Last(trace) = Sleep(poll_interval) /\ NotReady(Last(answers)))
    /\ [][(TimeoutRaised' /\ ~TimeoutRaised) => pc = "poll_check" /\ trace' = trace]_vars
    /\ [][TimeoutRaised => (TimeoutRaised' /\ trace' = trace)]_vars

\* The timeout fired after one not-ready status and the sleep that followed.
C18_Witness ==
    /\ TimeoutRaised
    /\ StatusRequests = 1 /\ Len(trace) = 5
    /\ Last(trace) = Sleep(1)

\* C16: a call that has been made ends: it comes to have returned or to have
\* raised, provided each request is answered and the clock keeps moving. A
\* call has an outcome exactly when it has ended, a returned payload when it
\* returned and an error when it raised, and once it has ended its outcome,
\* its position and its trace never change again.
C16_EndsExactlyOnce ==
    /\ (pc # "idle") ~> Terminal
    /\ [](/\ Terminal <=> outcome # NoOutcome
          /\ pc = "returned" <=> outcome.kind = "returned"
          /\ pc = "raised" <=> outcome.kind = "raised")
    /\ [][Terminal => (pc' = pc /\ outcome' = outcome /\ trace' = trace
                       /\ answers' = answers)]_vars

\* The call ended on the timeout after the polls the model allows, each
\* answered "not ready".
C16_Witness ==
    /\ TimeoutRaised
    /\ StatusRequests = 2 /\ NotReadyAnswers = 2

\* The call made through async_client stands where the call made through
\* client stands: same position, same locals, same requests and sleeps so
\* far, same outcome.
SameCall ==
    /\ peer.pc = pc
    /\ peer.trace = trace
    /\ peer.outcome = outcome
    /\ <<peer.api_token, peer.org_id, peer.upload_data, peer.extraction_data,
         peer.start_time, peer.result>>
       = <<api_token, org_id, upload_data, extraction_data, start_time, result>>

\* C19: the same call made through the blocking driver and through the
\* cooperative driver, given the same environment, the same responses and
\* the same clock readings, has at every moment issued the same requests
\* in both, and has ended in both or in neither, with the same outcome.
C19_DriversAgree ==
    /\ peer.trace = trace
    /\ peer.outcome = outcome

\* The two drivers stand alike for as long as aiohttp has not refused to
\* decode a 200 response for its Content-Type.
DriversAgreeOnJson ==
    \/ peer.outcome = ContentTypeError("text/plain")
    \/ SameCall

\* What a call keeps for itself once it is under way: its credentials, its
\* upload slot (file id), its extraction id, its start timestamp and timeout.
OwnKeys ==
    <<api_token, org_id, upload_data, extraction_data, start_time, timeout>>
PeerKeys ==
    <<peer.api_token, peer.org_id, peer.upload_data, peer.extraction_data,
      peer.start_time, peer.timeout>>
PeerTerminal == peer.pc \in {"returned", "raised"}

\* C20: with two calls in progress in one process, a step of the one leaves
\* everything of the other as it was (arguments, locals, trace, outcome);
\* every step of the first call is a step that call takes when it runs
\* alone; and the step by which one call ends, by a failure or a timeout
\* as well, leaves the credentials, file id, extraction id, start timestamp
\* and timeout of the other unchanged.
C20_CallsIndependent ==
    /\ [][peer' # peer => own' = own]_vars
    /\ [][own' # own => peer' = peer]_vars
    /\ [][Next]_own
    /\ [][(PeerTerminal' /\ ~PeerTerminal) => OwnKeys' = OwnKeys]_vars
    /\ [][(Terminal' /\ ~Terminal) => PeerKeys' = PeerKeys]_vars

\* The second call timed out while the first was polling; the first went on
\* with its own credentials and its own extraction id and returned.
C20_Witness ==
    /\ pc = "returned"
    /\ peer.pc = "raised"
    /\ peer.outcome.msg[1] = "Extraction timed out after "
    /\ api_token = "custom-token" /\ peer.api_token = "test-token"
    /\ extraction_data[1].extraction_id = "extraction-123"
    /\ peer.extraction_data[1].extraction_id = "extraction-456"
    /\ Last(trace).url = <<"https://api.vectorize.io/v1/org/", "custom-org",
                           "/extraction/", "extraction-123">>
    /\ Len(trace) > Len(peer.trace)

\* C21: the call made through async_client has a session exactly when it
\* has issued a request: none when it failed at entry (no credentials, no
\* file), one opened before its first request otherwise. The session is
\* open for as long as the call is under way and closed once the call has
\* ended, whichever way it ended; a closed session is never open again.
C21_SessionReleased ==
    /\ [](/\ peer.session = "none" <=> peer.trace = <<>>
          /\ peer.session = "open" <=>
                peer.pc \in {"upload_start", "byte_transfer", "extraction_start",
                             "poll_check", "status", "sleep"}
          /\ PeerTerminal => peer.session # "open"
          /\ (PeerTerminal /\ peer.trace # <<>>) => peer.session = "closed")
    /\ [][peer.session = "closed" => peer'.session = "closed"]_vars
    /\ [][(peer.session = "none" /\ peer'.session = "open") =>
             /\ peer.pc = "idle"
             /\ Len(peer'.trace) = 1
             /\ IsRequest(peer'.trace[1], "upload_start", "POST")]_vars

\* The cooperative call timed out after a poll and its session is closed.
C21_Witness ==
    /\ peer.pc = "raised"
    /\ peer.outcome.msg[1] = "Extraction timed out after "
    /\ Len(peer.trace) = 5
    /\ peer.session = "closed"

\* The requests of trace tr are linked by the ids the call holds in ud
\* (its upload slot) and ed (its extraction): the byte transfer goes to the
\* upload URL and nothing else mentions that URL, the extraction-start
\* request names the file id, every status request names the extraction id.
LinkedByIds(tr, ud, ed) ==
    \A i \in 1..Len(tr) :
        /\ IsRequest(tr[i], "byte_transfer", "PUT") =>
              ud # Absent /\ tr[i].url = <<ud[1].upload_url>>
        /\ (tr[i].ev = "request" /\ tr[i].step # "byte_transfer") =>
              /\ tr[i].url[1] = "https://api.vectorize.io/v1/org/"
              /\ ud # Absent => \A k \in 1..Len(tr[i].url) :
                                    tr[i].url[k] # ud[1].upload_url
        /\ IsRequest(tr[i], "extraction_start", "POST") =>
              /\ tr[i].json.fileId = ud[1].file_id
              /\ tr[i].json.fileId # ud[1].upload_url
        /\ IsRequest(tr[i], "status", "GET") =>
              /\ ed # Absent
              /\ tr[i].url[Len(tr[i].url)] = ed[1].extraction_id
              /\ tr[i].url[Len(tr[i].url) - 1] = "/extraction/"

\* C22: with two calls in progress, each call holds the file id, upload URL
\* and extraction id the service returned to it and no other, never changes
\* them once set, sends its bytes to its upload URL and mentions that URL in
\* no other request, names its file id in its extraction-start request and
\* its extraction id in every one of its status requests.
C22_IdsLinkTheSteps ==
    /\ [](/\ LinkedByIds(trace, upload_data, extraction_data)
          /\ LinkedByIds(peer.trace, peer.upload_data, peer.extraction_data)
          /\ upload_data # Absent =>
                upload_data[1] = [file_id |-> "file-123",
                                  upload_url |-> "https://upload.example.com"]
          /\ extraction_data # Absent =>
                extraction_data[1].extraction_id = "extraction-123"
          /\ peer.upload_data # Absent =>
                peer.upload_data[1] = StartFileUploadResponse(PeerUploadStartBody)
          /\ peer.extraction_data # Absent =>
                peer.extraction_data[1].extraction_id = "extraction-456")
    /\ [][/\ upload_data # Absent => upload_data' = upload_data
          /\ extraction_data # Absent => extraction_data' = extraction_data
          /\ peer.upload_data # Absent => peer'.upload_data = peer.upload_data
          /\ peer.extraction_data # Absent =>
                peer'.extraction_data = peer.extraction_data]_vars
    /\ [][(pc = "upload_start" /\ pc' = "byte_transfer") =>
             /\ upload_data'[1].file_id = response'.json.fileId
             /\ Last(trace').url = <<response'.json.uploadUrl>>]_vars
    /\ [][(pc = "extraction_start" /\ pc' = "poll_check") =>
             extraction_data'[1].extraction_id = response'.json.extractionId]_vars

\* Both calls have polled twice, each under its own extraction id.
C22_Witness ==
    /\ pc = "status" /\ peer.pc = "status"
    /\ StatusRequests = 2 /\ PeerStatusRequests = 2
    /\ Last(trace).url[4] = "extraction-123"
    /\ Last(peer.trace).url[4] = "extraction-456"
    /\ trace[3].json.fileId = "file-123"
    /\ peer.trace[3].json.fileId = "file-456"

\* The bytes the call was asked to extract from.
GivenBytes ==
    IF args.entry = "file" THEN FileBytes[args.file_path] ELSE args.file_bytes

\* C23: every upload-start, extraction-start and status request of the call
\* is sent with exactly two headers, Authorization: "Bearer " followed by
\* the call's token, and Content-Type: application/json. The byte transfer
\* is sent with exactly two headers, Content-Type: application/octet-stream
\* and Content-Length: the number of bytes of the file content in decimal;
\* it has no Authorization header and the token is in none of its headers
\* nor in its URL.
C23_HeadersPerRequestKind ==
    \A i \in 1..Len(Requests) :
        IF Requests[i].step = "byte_transfer"
        THEN /\ DOMAIN Requests[i].headers = {"ContentType", "ContentLength"}
             /\ Requests[i].headers.ContentType = "application/octet-stream"
             /\ Requests[i].headers.ContentLength = IntText[Len(GivenBytes)]
             /\ Requests[i].data = GivenBytes
             /\ "Authorization" \notin DOMAIN Requests[i].headers
             /\ Requests[i].url # <<api_token>>
        ELSE /\ DOMAIN Requests[i].headers = {"Authorization", "ContentType"}
             /\ Requests[i].headers.Authorization = <<"Bearer ", api_token>>
             /\ Truthy(api_token)
             /\ Requests[i].headers.ContentType = "application/json"

\* A file of four bytes was put to the upload URL and the call has polled.
C23_Witness ==
    /\ pc = "status" /\ args.entry = "file"
    /\ trace[2].headers = [ContentType |-> "application/octet-stream",
                           ContentLength |-> "4"]
    /\ Last(trace).headers = [Authorization |-> <<"Bearer ", "test-token">>,
                              ContentType |-> "application/json"]

\* json.loads(text) of a text holding one flat JSON object: the dict, or a
\* JSONDecodeError.
Decoded(d) == [ok |-> TRUE, value |-> d]
JSONDecodeError == [ok |-> FALSE]
IsJsonLiteral(tok) ==
    /\ "lit" \in DOMAIN tok
    /\ \/ tok.lit \in {"true", "false", "null"}
       \/ \E n \in DOMAIN IntText : IntText[n] = tok.lit
ParseValue(tok) ==
    CASE "q" \in DOMAIN tok -> [s |-> tok.q]
      [] tok.lit = "true" -> [b |-> TRUE]
      [] tok.lit = "false" -> [b |-> FALSE]
      [] tok.lit = "null" -> JsonNull
      [] OTHER -> [n |-> CHOOSE n \in DOMAIN IntText : IntText[n] = tok.lit]
RECURSIVE ParseMembers(_, _)
ParseMembers(text, i) ==
    IF \/ i + 3 > Len(text)
       \/ "q" \notin DOMAIN text[i]
       \/ text[i + 1] # Colon
       \/ ~("q" \in DOMAIN text[i + 2] \/ IsJsonLiteral(text[i + 2]))
    THEN JSONDecodeError
    ELSE LET item == [k |-> text[i].q, v |-> ParseValue(text[i + 2])]
         IN IF i + 3 = Len(text) THEN Decoded(<<item>>)
            ELSE IF text[i + 3] # Comma THEN JSONDecodeError
            ELSE LET rest == ParseMembers(text, i + 4)
                 IN IF rest.ok THEN Decoded(<<item>> \o rest.value)
                    ELSE JSONDecodeError
json_loads(text) ==
    IF Len(text) < 2 \/ text[1] # LBrace \/ text[Len(text)] # RBrace
    THEN JSONDecodeError
    ELSE IF Len(text) = 2 THEN Decoded(<<>>)
    ELSE ParseMembers(text, 2)

\* The keyword arguments with every list item written the given way.
AsKind(kw, kind) ==
    [k \in DOMAIN kw |->
       IF k = "metadata_schemas" /\ kw[k] # Absent
       THEN Some([j \in 1..Len(kw[k][1]) |-> [kw[k][1][j] EXCEPT !.kind = kind]])
       ELSE kw[k]]
\* The body of the extraction-start request that these keyword arguments
\* and this file id lead to.
WireOf(kw, file_id) ==
    DumpExtractionRequest(
        to_extraction_request(ExtractionOptionsOf(Arguments(kw)), file_id))
\* The list the caller wrote, if one was given.
GivenSchemas ==
    IF /\ opt.stage # "none"
       /\ "metadata_schemas" \in DOMAIN opt.given
       /\ opt.given.metadata_schemas # Absent
    THEN opt.given.metadata_schemas
    ELSE Absent

\* C24: a schema given as a dict is stored as a JSON string that parses
\* back to exactly that dict, a schema given as a string is stored
\* unchanged, and the body of the extraction-start request is the same
\* whether the items are written as MetadataExtractionStrategySchema
\* objects or as raw dicts.
C24_SchemaNormalized ==
    /\ GivenSchemas # Absent =>
         LET specs == GivenSchemas[1]
             built == opt.options.metadata_schemas[1]
         IN \A j \in 1..Len(specs) :
               /\ "dict" \in DOMAIN specs[j].schema =>
                    json_loads(built[j].schema_) = Decoded(specs[j].schema.dict)
               /\ "str" \in DOMAIN specs[j].schema =>
                    built[j].schema_ = specs[j].schema.str
    /\ opt.stage = "wire" =>
         /\ opt.wire = WireOf(AsKind(opt.given, "object"), opt.file_id)
         /\ opt.wire = WireOf(AsKind(opt.given, "dict"), opt.file_id)
C24_Witness ==
    /\ opt.stage = "wire"
    /\ GivenSchemas # Absent
    /\ Len(GivenSchemas[1]) = 2
    /\ GivenSchemas[1][1].kind = "dict"
    /\ "dict" \in DOMAIN GivenSchemas[1][1].schema
    /\ Len(GivenSchemas[1][1].schema.dict) = 4
    /\ GivenSchemas[1][2].kind = "object"
    /\ "str" \in DOMAIN GivenSchemas[1][2].schema
    /\ opt.wire.metadata.schemas[1].schema =
         <<LBrace, [q |-> "author"], Colon, [q |-> "string"], Comma,
           [q |-> "pages"], Colon, [lit |-> "3"], Comma,
           [q |-> "draft"], Colon, [lit |-> "true"], Comma,
           [q |-> "note"], Colon, [lit |-> "null"], RBrace>>
    /\ opt.wire.metadata.schemas[2].schema = <<[raw |-> "Extract: title, author, date"]>>

\* C25: a call that leaves out poll_interval, timeout and options sends an
\* extraction-start request with type "iris" and a metadata block holding
\* inferSchema = true only, without chunkSize and parsingInstructions; it
\* sleeps 2 seconds between status requests and gives up only when more
\* than 300 seconds have elapsed.
C25_Defaults ==
    /\ \A i \in 1..Len(trace) :
          /\ IsRequest(trace[i], "extraction_start", "POST") =>
               /\ DOMAIN trace[i].json = {"fileId", "type", "metadata"}
               /\ trace[i].json.type = "iris"
               /\ trace[i].json.metadata = [inferSchema |-> TRUE]
          /\ trace[i].ev = "sleep" => trace[i].secs = 2
    /\ trace # <<>> => poll_interval = 2 /\ timeout = 300
    /\ TimeoutRaised =>
         /\ now - start_time > 300
         /\ outcome.msg = <<"Extraction timed out after ", "300", " seconds">>
C25_Witness ==
    /\ TimeoutRaised
    /\ Len(trace) = 5
    /\ trace[5] = Sleep(2)
    /\ trace[3].json = [fileId |-> "file-123", type |-> "iris",
                        metadata |-> [inferSchema |-> TRUE]]
    /\ now - start_time = 302

\* C26: the path entry point called with the path of an existing file
\* leaves the call where the bytes entry point leaves it when called with
\* the content and the base name of that file: the whole content is held
\* before the first request goes out, the upload-start request names the
\* base name, the byte transfer carries the content, and the cooperative
\* path call is in the state of the cooperative bytes call.
C26_PathCallAsBytesCall ==
    /\ [][(Called /\ args'.entry = "file" /\ args'.file_path \in ExistingPaths) =>
            LET path == args'.file_path
            IN /\ peer' = extract_text_async(peer, env, FileBytes[path],
                             PathName[path], args'.api_token, args'.org_id,
                             args'.poll_interval, args'.timeout)
               /\ pc' = "upload_start" =>
                    /\ file_content' = FileBytes[path]
                    /\ file_name' = PathName[path]
                    /\ trace' = <<UploadStartRequest(api_token', org_id',
                                                     PathName[path])>>
               /\ pc' = "raised" => trace' = <<>> /\ outcome' = MissingCredentials]_vars
    /\ []((args.entry = "file" /\ trace # <<>>) =>
            /\ file_content = FileBytes[args.file_path]
            /\ file_name = PathName[args.file_path]
            /\ \A i \in 1..Len(trace) :
                  /\ IsRequest(trace[i], "upload_start", "POST") =>
                       trace[i].json.name = PathName[args.file_path]
                  /\ IsRequest(trace[i], "byte_transfer", "PUT") =>
                       trace[i].data = FileBytes[args.file_path])
C26_Witness ==
    /\ args.entry = "file"
    /\ pc = "returned"
    /\ peer.pc = "returned"
    /\ peer.outcome = outcome
    /\ peer.trace = trace
    /\ trace[1].json.name = "report.pdf"
    /\ trace[2].data = <<37, 80, 68, 70>>

\* C27: the start timestamp is the clock reading taken when the answer to
\* the extraction-start request has been accepted, and it stays as it is
\* while the call polls; the timeout error is raised only from the polling
\* loop and only with more than the timeout elapsed since that reading; a
\* call that reaches the loop with the clock already past the timeout
\* issues its status request.
C27_TimeoutFromStartTimestamp ==
    /\ [][(pc = "extraction_start" /\ pc' = "poll_check") => start_time' = now ]_vars
    /\ [][(pc \in {"poll_check", "status", "sleep"}) => start_time' = start_time ]_vars
    /\ [][(TimeoutRaised' /\ ~TimeoutRaised) =>
            /\ pc = "poll_check"
            /\ now - start_time > timeout]_vars
    /\ [][(pc = "poll_check" /\ now = start_time /\ now > timeout /\ pc' # pc) =>
            IssuesStatusRequest]_vars
    /\ [](pc \in {"upload_start", "byte_transfer", "extraction_start"} =>
            outcome = NoOutcome)
\* All of the clock explored went by during the upload phase, more than the
\* timeout, and the first status request is out.
C27_Witness ==
    /\ pc = "status" /\ StatusRequests = 1
    /\ timeout = 1 /\ start_time = 2 /\ now = 2

\* C28: all the JSON requests of a call carry one token and one
\* organization id, those resolved when the call was entered, whatever has
\* become of the environment variables since; a change of the environment
\* while the call is in progress leaves the resolved pair as it is.
C28_CredentialsResolvedOnce ==
    /\ [](\A i \in 1..Len(JsonRequests) :
            /\ JsonRequests[i].headers.Authorization =
                 JsonRequests[1].headers.Authorization
            /\ JsonRequests[i].url[2] = JsonRequests[1].url[2]
            /\ JsonRequests[i].headers.Authorization = <<"Bearer ", api_token>>
            /\ JsonRequests[i].url[2] = org_id)
    /\ [][(env' # env /\ pc # "idle") =>
            /\ api_token' = api_token /\ org_id' = org_id
            /\ trace' = trace]_vars
    /\ [][(Len(trace') > Len(trace) /\ pc # "idle" /\ IsRequest(Last(trace'), "status", "GET")) =>
            /\ Last(trace').headers.Authorization = trace[1].headers.Authorization
            /\ Last(trace').url[2] = trace[1].url[2]]_vars
\* The call took both credentials from the environment; the variables have
\* been unset since, and the status requests still carry what was resolved.
C28_Witness ==
    /\ pc = "status" /\ StatusRequests = 2
    /\ args.api_token = None /\ args.org_id = None
    /\ env = [VECTORIZE_API_TOKEN |-> None, VECTORIZE_ORG_ID |-> None]
    /\ Last(trace).headers.Authorization = <<"Bearer ", "test-token">>
    /\ Last(trace).url[2] = "test-org-id"

\* C29: the request that to_extraction_request builds has the file id it
\* was given and the chunk size and parsing instructions of the options; it
\* has a metadata block exactly when the options hold a schema list or an
\* infer flag, and that block holds the flag and the schemas of the list,
\* as many and in the order given, whether written as objects or as dicts;
\* the options are afterwards what they were before.
C29_OptionsTranslated ==
    opt.stage \in {"request", "wire"} =>
        /\ opt.request.file_id = opt.file_id
        /\ opt.request.chunk_size = opt.options.chunk_size
        /\ opt.request.parsing_instructions = opt.options.parsing_instructions
        /\ opt.request.metadata # Absent <=>
             (opt.options.metadata_schemas # Absent
                \/ opt.options.infer_metadata_schema # Absent)
        /\ opt.request.metadata # Absent =>
             /\ opt.request.metadata[1].infer_schema = opt.options.infer_metadata_schema
             /\ opt.request.metadata[1].schemas = opt.options.metadata_schemas
             /\ GivenSchemas = Absent <=> opt.request.metadata[1].schemas = Absent
             /\ GivenSchemas # Absent =>
                  /\ Len(opt.request.metadata[1].schemas[1]) = Len(GivenSchemas[1])
                  /\ \A j \in 1..Len(GivenSchemas[1]) :
                        opt.request.metadata[1].schemas[1][j] =
                          MetadataExtractionStrategySchema(GivenSchemas[1][j].id,
                                                           GivenSchemas[1][j].schema)
        /\ opt.options = ExtractionOptionsOf(Arguments(opt.given))
\* A list of two, a dict first and an object second, and the infer flag set
\* to None: the block is there, with both schemas in that order.
C29_Witness ==
    /\ opt.stage = "request"
    /\ GivenSchemas # Absent
    /\ Len(GivenSchemas[1]) = 2
    /\ GivenSchemas[1][1].kind = "dict" /\ GivenSchemas[1][2].kind = "object"
    /\ GivenSchemas[1][1].schema # GivenSchemas[1][2].schema
    /\ "infer_metadata_schema" \in DOMAIN opt.given
    /\ opt.given.infer_metadata_schema = Absent
    /\ opt.request.chunk_size = Some(512)
    /\ Len(opt.request.metadata[1].schemas[1]) = 2
    /\ opt.request.metadata[1].infer_schema = Absent

\* C30: a check at the top of the loop made with exactly the timeout
\* elapsed does not end the call: the status request goes out; a call that
\* has raised the timeout error did so with more than the timeout elapsed.
C30_StrictComparison ==
    /\ [][(pc = "poll_check" /\ Elapsed = timeout /\ pc' # pc) =>
            /\ IssuesStatusRequest
            /\ pc' = "status"
            /\ outcome' = NoOutcome]_vars
    /\ [](TimeoutRaised => Elapsed >= timeout + 1)
\* Timeout 0 and a clock that has not moved since the start timestamp: the
\* first status request is out.
C30_Witness ==
    /\ pc = "status" /\ StatusRequests = 1
    /\ timeout = 0 /\ now = start_time
    /\ IsRequest(Last(trace), "status", "GET")

\* C31: no deadline is applied to an answer: once a status request has been
\* answered ready with a success payload the call has returned that
\* payload, however late the answer came; and a call that has raised the
\* timeout error had no status answer yet or a last one that was not ready.
C31_NoDeadlineAfterResponse ==
    /\ (answers # <<>> /\ ReadySuccess(Last(answers))) =>
          /\ pc = "returned"
          /\ ReturnedPayloadOf(Last(answers))
    /\ TimeoutRaised => (answers = <<>> \/ NotReady(Last(answers)))
\* Timeout 0: the only status request went out with nothing elapsed, its
\* answer came two seconds later, and the call returned the payload.
C31_Witness ==
    /\ pc = "returned"
    /\ StatusRequests = 1 /\ Len(answers) = 1
    /\ timeout = 0 /\ now - start_time = 2
    /\ outcome.value.text = "X"

\* C32: a call with poll interval p >= 1, whose sleeps take at least p and
\* whose clock never goes back, has issued at most floor(timeout / p) + 1
\* status requests when its timeout is 0 or more, and none when its timeout
\* is negative.
C32_PollCountBound ==
    (trace # <<>> /\ poll_interval >= 1) =>
        IF timeout < 0
        THEN StatusRequests = 0
        ELSE StatusRequests <= (timeout \div poll_interval) + 1
\* Timeout 1, interval 1: two status requests went out, at 0 and at 1
\* second, and the third check raised the timeout error.
C32_Witness ==
    /\ TimeoutRaised
    /\ timeout = 1 /\ poll_interval = 1
    /\ StatusRequests = 2
    /\ now - start_time = 2

\* The last response had status 200 and a body that lacks a field its step
\* requires.
LacksRequiredField ==
    /\ "json" \in DOMAIN response
    /\ response.status = 200
    /\ CASE response.step = "upload_start" ->
              ~({"fileId", "uploadUrl"} \subseteq DOMAIN response.json)
         [] response.step = "extraction_start" ->
              ~({"message", "extractionId"} \subseteq DOMAIN response.json)
         [] response.step = "status" -> "ready" \notin DOMAIN response.json
         [] OTHER -> FALSE
\* The response model of each step.
ResponseModel(step) ==
    CASE step = "upload_start" -> "StartFileUploadResponse"
      [] step = "extraction_start" -> "StartExtractionResponse"
      [] step = "status" -> "ExtractionResult"

C34_CredentialsBeforeFile ==
    /\ (args.entry = "file" /\ (~Truthy(api_token) \/ ~Truthy(org_id))) =>
          /\ pc = "raised"
          /\ IsMissingCredentials(outcome)
          /\ consulted = <<>>
          /\ trace = <<>>
    /\ consulted # <<>> =>
          /\ args.entry = "file"
          /\ Truthy(api_token) /\ Truthy(org_id)
          /\ consulted[1] = Exists(args.file_path)
          /\ IF args.file_path \in ExistingPaths
             THEN consulted = <<Exists(args.file_path), ReadAll(args.file_path)>>
             ELSE consulted = <<Exists(args.file_path)>>
\* No organization id anywhere and a path that does not exist: the call
\* failed on the credentials.
C34_Witness ==
    /\ pc = "raised"
    /\ args.entry = "file"
    /\ args.file_path = "/nonexistent/file.pdf"
    /\ api_token = "custom-token" /\ org_id = None
    /\ IsMissingCredentials(outcome)
    /\ consulted = <<>>

\* C35: whenever a status request is answered with ready = false, whatever
\* else the body holds, the call raises nothing and returns nothing: it
\* goes to sleep for the poll interval, from where it polls again.
C35_NotReadyKeepsPolling ==
    [][(pc = "status" /\ Len(answers') = Len(answers) + 1
          /\ NotReady(Last(answers'))) =>
         /\ pc' = "sleep"
         /\ outcome' = NoOutcome
         /\ trace' = Append(trace, Sleep(poll_interval))]_vars

\* C36: the fallback is per field and by truthiness. At the call, an
\* explicit token that is the empty string counts as absent: the call works
\* with the environment's token when that is set, and raises the
\* missing-credentials error without a request when it is not; likewise
\* the organization id. An explicit non-empty value is kept whatever the
\* source of the other field, a pair from different sources is accepted,
\* and every JSON request carries the pair so resolved.
C36_FallbackByTruthiness ==
    /\ [][Called =>
            /\ args'.api_token = "" => api_token' = env.VECTORIZE_API_TOKEN
            /\ args'.org_id = "" => org_id' = env.VECTORIZE_ORG_ID
            /\ Truthy(args'.api_token) => api_token' = args'.api_token
            /\ Truthy(args'.org_id) => org_id' = args'.org_id
            /\ (\/ args'.api_token = "" /\ ~Truthy(env.VECTORIZE_API_TOKEN)
                \/ args'.org_id = "" /\ ~Truthy(env.VECTORIZE_ORG_ID)) =>
                  pc' = "raised" /\ IsMissingCredentials(outcome') /\ trace' = <<>>
            /\ (Truthy(api_token') /\ Truthy(org_id')) =>
                  ~IsMissingCredentials(outcome')]_vars
    /\ [](\A i \in 1..Len(JsonRequests) :
            /\ JsonRequests[i].headers.Authorization = <<"Bearer ", api_token>>
            /\ JsonRequests[i].url[2] = org_id)

\* An explicit token with an empty organization id: the call has polled
\* with the explicit token and the environment's organization id.
C36_Witness ==
    /\ args # NoArgs
    /\ args.api_token = "custom-token" /\ args.org_id = ""
    /\ env = [VECTORIZE_API_TOKEN |-> "test-token", VECTORIZE_ORG_ID |-> "test-org-id"]
    /\ StatusRequests = 1
    /\ api_token = "custom-token" /\ org_id = "test-org-id"
    /\ Last(trace).headers.Authorization = <<"Bearer ", "custom-token">>
    /\ Last(trace).url[2] = "test-org-id"

====
